---- MODULE Spec2Model ----
(***************************************************************************)
(* A model of bw-cli's provider gateway and aggregator                     *)
(* (internal/aws/ecs.go): the fan-out/fan-in of GetAllServiceDetails, the  *)
(* batching loop of describeServicesInBatches, the deployment status       *)
(* mapping of GetServiceDeploymentStatus, the poll loop of                 *)
(* PollServiceUpdates and the two UpdateService calls; and of the service  *)
(* UI (internal/ui/ui.go): the list and its filter, the modals, the count  *)
(* prompt and restartAllServices.                                          *)
(***************************************************************************)
EXTENDS Integers, Sequences, FiniteSets, TLC

\* const maxDescribeServicesBatchSize = 10
maxDescribeServicesBatchSize == 10

\* Bounds of the model.
MaxClusters == 2        \* clusters the provider holds
MaxSvc == 2             \* services of a small cluster (fan-out model)
MaxArns == 21           \* services of the one cluster of the batching model

VARIABLES
    \* ---- the provider (the mock behind ECSClientAPI)
    clusterPages,   \* the pages ListClusters returns, in order
    svcCount,       \* svcCount[c]: number of services ListServices(c) returns
    deleted,        \* services DescribeServices no longer returns
    clusterCalls,   \* the ListClusters page calls so far: TRUE a page, FALSE an error
    listCalls,      \* clusters ListServices was called for
    calls,          \* calls[c]: the DescribeServices calls issued for c, in order
    \* ---- GetAllServiceDetails, the calling goroutine
    mpc, pageIdx, clusters, spawnIdx, wg, serviceCh, chClosed, allServices, retErr,
    \* ---- the goroutine of each cluster (describeServicesInBatches)
    gpc, serviceArns, idx, services, gerr,
    \* ---- GetServiceDeploymentStatus: one call
    stPc,           \* "idle", "call" or "done"
    stOutput,       \* what DescribeServices answers
    stResult,       \* what the call returned
    \* ---- PollServiceUpdates
    pollServices,   \* the services argument
    ctxDone,        \* the shared context is cancelled
    ticks,          \* ticks the ticker has fired
    tickerC,        \* ticks waiting in ticker.C (a channel of capacity 1)
    tickerStopped,  \* ticker.Stop() has run
    ppc,            \* the goroutine: "select", "fetch", "send" or "done"
    fi,             \* the fetch loop's index i
    updatedServices,\* the snapshot the tick is building
    updatesClosed,  \* close(updates) has run
    received,       \* the snapshots the consumer received from updates, in order
    started,        \* fetch cycles begun
    finished,       \* fetch cycles whose snapshot was handed over
    consuming,      \* the consumer still receives from updates
    createdAt,      \* cycles begun when the provider gained a service, -1 before
    sliceId,        \* the backing array of updatedServices: 0 none, else its number
    publishedIds,   \* the backing arrays of the snapshots sent on updates
    \* ---- the provider's UpdateService (behind UpdateServiceDesiredCount, RestartService)
    updateReqs,     \* the UpdateService requests sent so far, each with its outcome
    \* ---- restartAllServices
    rServices,      \* the services argument
    rpc,            \* "idle", "spawn", "wait", "drain", "report", "queued" or "done"
    rIdx,           \* services the range loop has started a goroutine for
    rWg,            \* the WaitGroup's counter
    wpc,            \* wpc[i]: goroutine i is "none", "ready", "call", "ok" or "err"
    failedServices, \* the buffered channel of failed names
    failed,         \* the slice drained from failedServices
    rMessages,      \* the reports handed to QueueUpdateDraw, in order
    \* ---- ServiceUI and the modals over it
    currentServices, filteredServices,
    searchText,     \* searchInput's text
    listItems,      \* the main text of the list's items
    focus,          \* "list" or "search"
    root,           \* "layout", "options", "count", "restartAll" or "message"
    modalService,   \* the service the options modal and the count prompt hold
    promptServices, \* the services the restart-all prompt holds
    messageText,    \* the text of the message modal
    inputText,      \* the text of the count prompt's field
    lastKey,        \* the key the prompt's done function last got, "none" if none
    \* ---- the metrics of the services of one DescribeServices output
    metricsOutput,  \* output.Services
    metricsIdx,     \* services the range loop has handled
    metricsServices,\* the records appended so far
    metricsFailed,  \* the services whose getServiceMetrics returned an error
    \* ---- runCLI
    runVariant,     \* which runCLI runs: the one of main.go or the earlier one
    runPc,          \* the statement runCLI is at
    runCalls,       \* the calls runCLI has made, in order
    runServices,    \* services, the result of the initial fetch
    diagnostic,     \* what log.Fatalf printed, "" if nothing
    \* ---- the shell hand-off
    screen,         \* "app" while the application holds the terminal, else "released"
    shellPc,        \* where ExecCommandToContainer is: "idle", "cleared", "attached"
    containerNames, \* the items of the container selection list
    container       \* the container of the confirmation modal, 0 if none

provVars == <<clusterPages, svcCount, deleted>>
mainVars == <<mpc, pageIdx, clusters, spawnIdx, wg, serviceCh, chClosed, allServices, retErr>>
goVars == <<gpc, serviceArns, idx, services, gerr>>
aggVars == <<provVars, clusterCalls, listCalls, calls, mainVars, goVars>>

statusVars == <<stPc, stOutput, stResult>>
pollVars == <<pollServices, ctxDone, ticks, tickerC, tickerStopped, ppc, fi,
              updatedServices, updatesClosed, received, started, finished,
              consuming, createdAt, sliceId, publishedIds>>

\* the storage of the snapshots
sliceVars == <<sliceId, publishedIds>>

\* what the poll loop's environment decides, and the goroutine never writes
envVars == <<consuming, createdAt>>

restartVars == <<rServices, rpc, rIdx, rWg, wpc, failedServices, failed, rMessages>>
stateVars == <<currentServices, filteredServices, listItems>>
viewVars == <<stateVars, searchText, focus, root, modalService, promptServices,
              messageText, inputText, lastKey>>
uiVars == <<updateReqs, restartVars, viewVars>>

metricVars == <<metricsOutput, metricsIdx, metricsServices, metricsFailed>>

runVars == <<runVariant, runPc, runCalls, runServices, diagnostic>>

shellVars == <<screen, shellPc, containerNames, container>>

vars == <<aggVars, statusVars, pollVars, uiVars, metricVars, runVars, shellVars>>

ClusterIds == 1..MaxClusters

RECURSIVE Flatten(_)
Flatten(ss) == IF ss = <<>> THEN <<>> ELSE Head(ss) \o Flatten(Tail(ss))

Range(s) == {s[k] : k \in 1..Len(s)}

\* Chunks of a sequence, `size` elements a page.
RECURSIVE Pages(_, _)
Pages(s, size) ==
    IF Len(s) <= size THEN <<s>>
    ELSE <<SubSeq(s, 1, size)>> \o Pages(SubSeq(s, size + 1, Len(s)), size)

----------------------------------------------------------------------------
\* The provider's view of service k of cluster c (types.Service).
Statuses == <<"ACTIVE", "DRAINING", "INACTIVE">>
ProviderService(c, k) ==
    [ServiceName |-> k,
     RunningCount |-> (k + c) % 3,
     DesiredCount |-> k % 4,
     Status |-> Statuses[(k % 3) + 1]]

\* DescribeServicesOutput.Services of a successful call for `batch`.
DescribeOutput(c, batch) ==
    LET kept == SelectSeq(batch, LAMBDA k : k \notin deleted)
    IN  [j \in 1..Len(kept) |-> ProviderService(c, kept[j])]

\* A variant that reads the variable of the spawning loop, by then at its last
\* cluster, where the goroutine should read its own argument.
ToServiceDetailsLoopVariable(service, cluster) ==
    [ServiceName |-> service.ServiceName,
     RunningCount |-> service.RunningCount,
     DesiredCount |-> service.DesiredCount,
     Status |-> service.Status,
     Cluster |-> clusters[Len(clusters)]]

\* pkg.ServiceDetails built from one described service.
ToServiceDetails(service, cluster) ==
    [ServiceName |-> service.ServiceName,
     RunningCount |-> service.RunningCount,
     DesiredCount |-> service.DesiredCount,
     Status |-> service.Status,
     Cluster |-> cluster]

\* A variant that puts a batch's records before the earlier ones.
AppendDetailsPrepend(acc, out, cluster) ==
    [j \in 1..Len(out) |-> ToServiceDetails(out[j], cluster)] \o acc

\* for _, service := range output.Services { services = append(services, ...) }
AppendDetails(acc, out, cluster) ==
    acc \o [j \in 1..Len(out) |-> ToServiceDetails(out[j], cluster)]

\* A variant with an inclusive end: a full batch holds one identifier too many.
BatchEndInclusive(i, n) ==
    IF i + maxDescribeServicesBatchSize + 1 > n THEN n
    ELSE i + maxDescribeServicesBatchSize + 1

\* end := i + max; if end > len(serviceArns) { end = len(serviceArns) }
BatchEnd(i, n) ==
    IF i + maxDescribeServicesBatchSize > n THEN n
    ELSE i + maxDescribeServicesBatchSize

\* batch := serviceArns[i:end]
Batch(arns, i) == SubSeq(arns, i + 1, BatchEnd(i, Len(arns)))

\* i += maxDescribeServicesBatchSize
NextIndex(i) == i + maxDescribeServicesBatchSize

\* A variant that gives up the remaining batches after a failed one (break).
NextIndexOnErrorBreak(i, n) == n

\* if err != nil { ...; continue }: the loop goes on with the next batch
NextIndexOnError(i, n) == NextIndex(i)

\* if err != nil || len(serviceArns) == 0 { return nil, err }
ReturnsEarly(err, n) == err \/ n = 0
EarlyReturnServices == <<>>

\* A variant that swallows a page's error and goes on with the clusters listed so far.
ListClustersOnErrorPartial(acc) == [failed |-> FALSE, clusters |-> acc]

\* listClusters: if err != nil { return nil, err }, and the caller's return nil, err
ListClustersOnError(acc) == [failed |-> TRUE, clusters |-> <<>>]

\* A variant that returns a branch's failure as the aggregation's error.
ReturnErrorPropagate(branchFailed) == branchFailed

\* return allServices, nil: no branch's failure is returned
ReturnError(branchFailed) == FALSE

\* A variant that assigns instead of appending.
AppendAllOverwrite(all, s) == s

\* allServices = append(allServices, services...)
AppendAll(all, s) == all \o s

\* A variant that does not wait for the goroutines.
WaitDoneSkip(w) == TRUE

\* wg.Wait()
WaitDone(w) == w = 0

\* if err != nil { return }; serviceCh <- services
SendsResult(err) == ~err

\* A variant with an unbuffered channel: a send waits for a receiver, and the
\* collector receives only after wg.Wait().
CanSendUnbuffered(ch, capacity) == FALSE

\* make(chan ..., capacity): a send goes through while the buffer has room
CanSend(ch, capacity) == Len(ch) < capacity

----------------------------------------------------------------------------
InitMain ==
    /\ mpc = "listClusters"
    /\ pageIdx = 1
    /\ clusters = <<>>
    /\ spawnIdx = 1
    /\ wg = 0
    /\ serviceCh = <<>>
    /\ chClosed = FALSE
    /\ allServices = <<>>
    /\ retErr = FALSE
    /\ clusterCalls = <<>>
    /\ listCalls = {}
    /\ calls = [c \in ClusterIds |-> <<>>]
    /\ gpc = [c \in ClusterIds |-> "idle"]
    /\ serviceArns = [c \in ClusterIds |-> <<>>]
    /\ idx = [c \in ClusterIds |-> 0]
    /\ services = [c \in ClusterIds |-> <<>>]
    /\ gerr = [c \in ClusterIds |-> FALSE]

\* No status call and no poll loop: what the other models leave alone.
NoOutput == [err |-> FALSE, services |-> <<>>]
NoResult == [status |-> "", err |-> FALSE]

IdleStatus ==
    /\ stPc = "idle"
    /\ stOutput = NoOutput
    /\ stResult = NoResult

IdlePoll ==
    /\ pollServices = <<>>
    /\ ctxDone = FALSE
    /\ ticks = 0
    /\ tickerC = 0
    /\ tickerStopped = FALSE
    /\ ppc = "idle"
    /\ fi = 0
    /\ updatedServices = <<>>
    /\ updatesClosed = FALSE
    /\ received = <<>>
    /\ started = 0
    /\ finished = 0
    /\ consuming = TRUE
    /\ createdAt = -1
    /\ sliceId = 0
    /\ publishedIds = {}

\* No restartAllServices call is running.
IdleRestart ==
    /\ rServices = <<>>
    /\ rpc = "idle"
    /\ rIdx = 0
    /\ rWg = 0
    /\ wpc = <<>>
    /\ failedServices = <<>>
    /\ failed = <<>>
    /\ rMessages = <<>>

\* pkg.ServiceDetails{} with a string name: "" is the empty sequence of characters
NoService ==
    [ServiceName |-> <<>>, RunningCount |-> 0, DesiredCount |-> 0, Status |-> "",
     Cluster |-> 0]

\* The layout is the root, over the list of `svcs`, and no modal is open.
ViewOf(svcs, items) ==
    /\ currentServices = svcs
    /\ filteredServices = svcs
    /\ listItems = items
    /\ searchText = <<>>
    /\ focus = "list"
    /\ root = "layout"
    /\ modalService = NoService
    /\ promptServices = <<>>
    /\ messageText = <<>>
    /\ inputText = <<>>
    /\ lastKey = "none"

IdleUI ==
    /\ updateReqs = <<>>
    /\ IdleRestart
    /\ ViewOf(<<>>, <<>>)

\* No DescribeServices output is being enriched.
IdleMetrics ==
    /\ metricsOutput = <<>>
    /\ metricsIdx = 0
    /\ metricsServices = <<>>
    /\ metricsFailed = {}

\* runCLI has brought the application up: app.Run is serving events.
IdleRun ==
    /\ runVariant = "main.go"
    /\ runPc = "running"
    /\ runCalls = <<>>
    /\ runServices = <<>>
    /\ diagnostic = ""

\* The application holds the terminal and no container is being connected to.
IdleShell ==
    /\ screen = "app"
    /\ shellPc = "idle"
    /\ containerNames = <<>>
    /\ container = 0

DeletedChoices == {{}, {1}, {maxDescribeServicesBatchSize + 1}}

\* The fan-out model: up to MaxClusters clusters, each empty, small or of two batches.
SvcCounts == {0, MaxSvc, maxDescribeServicesBatchSize + MaxSvc}

Init ==
    /\ \E nc \in 0..MaxClusters, size \in 1..MaxClusters :
          /\ size <= (IF nc = 0 THEN 1 ELSE nc)
          /\ clusterPages = Pages([c \in 1..nc |-> c], size)
          /\ \E f \in [1..nc -> SvcCounts] :
                svcCount = [c \in ClusterIds |-> IF c <= nc THEN f[c] ELSE 0]
    /\ deleted \in DeletedChoices
    /\ InitMain
    /\ IdleStatus
    /\ IdlePoll
    /\ IdleUI
    /\ IdleMetrics
    /\ IdleRun
    /\ IdleShell

\* The batching model: one cluster of 0..MaxArns services.
InitBatch ==
    /\ clusterPages = <<<<1>>>>
    /\ \E n \in 0..MaxArns : svcCount = [c \in ClusterIds |-> IF c = 1 THEN n ELSE 0]
    /\ deleted \in DeletedChoices
    /\ InitMain
    /\ IdleStatus
    /\ IdlePoll
    /\ IdleUI
    /\ IdleMetrics
    /\ IdleRun
    /\ IdleShell

----------------------------------------------------------------------------
\* listClusters: one page of the paginator.
ListClustersPageOk ==
    /\ mpc = "listClusters"
    /\ pageIdx <= Len(clusterPages)
    /\ clusters' = clusters \o clusterPages[pageIdx]
    /\ pageIdx' = pageIdx + 1
    /\ mpc' = IF pageIdx + 1 > Len(clusterPages) THEN "spawn" ELSE "listClusters"
    /\ clusterCalls' = Append(clusterCalls, TRUE)
    /\ UNCHANGED <<statusVars, shellVars, runVars, metricVars, pollVars, uiVars, provVars, listCalls, calls, goVars,
                   spawnIdx, wg, serviceCh, chClosed, allServices, retErr>>

\* listClusters: a page fails; GetAllServiceDetails returns nil, err.
ListClustersPageErr ==
    /\ mpc = "listClusters"
    /\ pageIdx <= Len(clusterPages)
    /\ clusterCalls' = Append(clusterCalls, FALSE)
    /\ LET r == ListClustersOnError(clusters)
       IN  /\ clusters' = r.clusters
           /\ retErr' = r.failed
           /\ mpc' = IF r.failed THEN "done" ELSE "spawn"
    /\ allServices' = <<>>
    /\ UNCHANGED <<statusVars, shellVars, runVars, metricVars, pollVars, uiVars, provVars, listCalls, calls, goVars,
                   pageIdx, spawnIdx, wg, serviceCh, chClosed>>

\* for _, cluster := range clusters { wg.Add(1); go func(cluster) {...}(cluster) }
Spawn ==
    /\ mpc = "spawn"
    /\ spawnIdx <= Len(clusters)
    /\ wg' = wg + 1
    /\ gpc' = [gpc EXCEPT ![clusters[spawnIdx]] = "list"]
    /\ spawnIdx' = spawnIdx + 1
    /\ UNCHANGED <<statusVars, shellVars, runVars, metricVars, pollVars, uiVars, provVars, clusterCalls, listCalls, calls, serviceArns, idx, services, gerr,
                   mpc, pageIdx, clusters, serviceCh, chClosed, allServices, retErr>>

\* wg.Wait(); close(serviceCh)
WaitClose ==
    /\ mpc = "spawn"
    /\ spawnIdx > Len(clusters)
    /\ WaitDone(wg)
    /\ chClosed' = TRUE
    /\ mpc' = "drain"
    /\ UNCHANGED <<statusVars, shellVars, runVars, metricVars, pollVars, uiVars, provVars, clusterCalls, listCalls, calls, goVars,
                   pageIdx, clusters, spawnIdx, wg, serviceCh, allServices, retErr>>

\* for services := range serviceCh { allServices = append(allServices, services...) }
Drain ==
    /\ mpc = "drain"
    /\ serviceCh # <<>>
    /\ allServices' = AppendAll(allServices, Head(serviceCh))
    /\ serviceCh' = Tail(serviceCh)
    /\ UNCHANGED <<statusVars, shellVars, runVars, metricVars, pollVars, uiVars, provVars, clusterCalls, listCalls, calls, goVars,
                   mpc, pageIdx, clusters, spawnIdx, wg, chClosed, retErr>>

\* return allServices, nil
Return ==
    /\ mpc = "drain"
    /\ serviceCh = <<>>
    /\ mpc' = "done"
    /\ retErr' = ReturnError(\E c \in ClusterIds : gerr[c])
    /\ UNCHANGED <<statusVars, shellVars, runVars, metricVars, pollVars, uiVars, provVars, clusterCalls, listCalls, calls, goVars,
                   pageIdx, clusters, spawnIdx, wg, serviceCh, chClosed, allServices>>

----------------------------------------------------------------------------
\* listServices succeeds (every page); the early return on an empty list.
ListServicesOk(c) ==
    /\ gpc[c] = "list"
    /\ listCalls' = listCalls \cup {c}
    /\ LET arns == [k \in 1..svcCount[c] |-> k]
       IN  /\ serviceArns' = [serviceArns EXCEPT ![c] = arns]
           /\ IF ReturnsEarly(FALSE, Len(arns))
              THEN /\ gpc' = [gpc EXCEPT ![c] = "ret"]
                   /\ services' = [services EXCEPT ![c] = EarlyReturnServices]
              ELSE /\ gpc' = [gpc EXCEPT ![c] = "loop"]
                   /\ services' = services
    /\ UNCHANGED <<statusVars, shellVars, runVars, metricVars, pollVars, uiVars, provVars, clusterCalls, calls, mainVars, idx, gerr>>

\* listServices fails on some page: return nil, err.
ListServicesErr(c) ==
    /\ gpc[c] = "list"
    /\ listCalls' = listCalls \cup {c}
    /\ ReturnsEarly(TRUE, 0)
    /\ gerr' = [gerr EXCEPT ![c] = TRUE]
    /\ services' = [services EXCEPT ![c] = EarlyReturnServices]
    /\ gpc' = [gpc EXCEPT ![c] = "ret"]
    /\ UNCHANGED <<statusVars, shellVars, runVars, metricVars, pollVars, uiVars, provVars, clusterCalls, calls, mainVars, serviceArns, idx>>

\* One iteration of the batching loop whose DescribeServices call succeeds.
DescribeBatchOk(c) ==
    /\ gpc[c] = "loop"
    /\ idx[c] < Len(serviceArns[c])
    /\ LET batch == Batch(serviceArns[c], idx[c])
           out == DescribeOutput(c, batch)
       IN  /\ calls' = [calls EXCEPT ![c] = Append(@, [batch |-> batch, ok |-> TRUE, out |-> out])]
           /\ services' = [services EXCEPT ![c] = AppendDetails(@, out, c)]
    /\ idx' = [idx EXCEPT ![c] = NextIndex(@)]
    /\ UNCHANGED <<statusVars, shellVars, runVars, metricVars, pollVars, uiVars, provVars, clusterCalls, listCalls, mainVars, gpc, serviceArns, gerr>>

\* One iteration whose DescribeServices call fails: logged, then continue.
DescribeBatchErr(c) ==
    /\ gpc[c] = "loop"
    /\ idx[c] < Len(serviceArns[c])
    /\ LET batch == Batch(serviceArns[c], idx[c])
       IN  calls' = [calls EXCEPT ![c] = Append(@, [batch |-> batch, ok |-> FALSE, out |-> <<>>])]
    /\ idx' = [idx EXCEPT ![c] = NextIndexOnError(@, Len(serviceArns[c]))]
    /\ UNCHANGED <<statusVars, shellVars, runVars, metricVars, pollVars, uiVars, provVars, clusterCalls, listCalls, mainVars, gpc, serviceArns, services, gerr>>

\* The loop ends: return services, nil.
LoopExit(c) ==
    /\ gpc[c] = "loop"
    /\ idx[c] >= Len(serviceArns[c])
    /\ gpc' = [gpc EXCEPT ![c] = "ret"]
    /\ UNCHANGED <<statusVars, shellVars, runVars, metricVars, pollVars, uiVars, provVars, clusterCalls, listCalls, calls, mainVars, serviceArns, idx, services, gerr>>

\* Back in the goroutine: if err != nil { return }; serviceCh <- services; wg.Done()
Finish(c) ==
    /\ gpc[c] = "ret"
    /\ SendsResult(gerr[c]) => CanSend(serviceCh, Len(clusters))
    /\ serviceCh' = IF SendsResult(gerr[c]) THEN Append(serviceCh, services[c]) ELSE serviceCh
    /\ wg' = wg - 1
    /\ gpc' = [gpc EXCEPT ![c] = "done"]
    /\ UNCHANGED <<statusVars, shellVars, runVars, metricVars, pollVars, uiVars, provVars, clusterCalls, listCalls, calls, serviceArns, idx, services, gerr,
                   mpc, pageIdx, clusters, spawnIdx, chClosed, allServices, retErr>>

Next ==
    \/ ListClustersPageOk
    \/ ListClustersPageErr
    \/ Spawn
    \/ WaitClose
    \/ Drain
    \/ Return
    \/ \E c \in ClusterIds :
          \/ ListServicesOk(c)
          \/ ListServicesErr(c)
          \/ DescribeBatchOk(c)
          \/ DescribeBatchErr(c)
          \/ LoopExit(c)
          \/ Finish(c)

Spec == Init /\ [][Next]_vars

SpecBatch == InitBatch /\ [][Next]_vars

----------------------------------------------------------------------------
\* GetServiceDeploymentStatus

MaxCount == 11          \* the largest running or desired count of a deployment

Digits == <<"0", "1", "2", "3", "4", "5", "6", "7", "8", "9">>

\* %d of a count
RECURSIVE FormatInt(_)
FormatInt(n) ==
    IF n < 10 THEN Digits[n + 1]
    ELSE FormatInt(n \div 10) \o Digits[(n % 10) + 1]

\* fmt.Sprintf("Deploying (%d/%d)", deployment.RunningCount, deployment.DesiredCount)
DeployingStatus(running, desired) ==
    "Deploying (" \o FormatInt(running) \o "/" \o FormatInt(desired) \o ")"

\* A variant that reports every completed rollout as stable.
CompletedStatusAlwaysStable(running, desired, raw) == "Stable"

\* case "COMPLETED": "Stable" when the counts agree, else out of the switch to
\* return *deployment.Status
CompletedStatus(running, desired, raw) ==
    IF running = desired THEN "Stable" ELSE raw

\* switch deployment.RolloutState { ... }; return *deployment.Status, nil
DeploymentStatus(deployment) ==
    CASE deployment.RolloutState = "IN_PROGRESS" ->
            DeployingStatus(deployment.RunningCount, deployment.DesiredCount)
      [] deployment.RolloutState = "COMPLETED" ->
            CompletedStatus(deployment.RunningCount, deployment.DesiredCount,
                            deployment.Status)
      [] deployment.RolloutState = "FAILED" -> "Deployment Failed"
      [] OTHER -> deployment.Status

GetServiceDeploymentStatus(output) ==
    IF output.err THEN [status |-> "", err |-> TRUE]
    ELSE IF Len(output.services) = 0 \/ Len(output.services[1].Deployments) = 0
         THEN [status |-> "Unknown", err |-> FALSE]
         ELSE [status |-> DeploymentStatus(output.services[1].Deployments[1]),
               err |-> FALSE]

\* The answers of DescribeServices the status call is tried on.
RolloutStates == {"IN_PROGRESS", "COMPLETED", "FAILED", ""}
RawStatuses == {"PRIMARY", "ACTIVE", "DRAINING"}
Deployments ==
    [RolloutState : RolloutStates, RunningCount : 0..MaxCount,
     DesiredCount : 0..MaxCount, Status : RawStatuses]
OlderDeployment ==
    [RolloutState |-> "COMPLETED", RunningCount |-> 1, DesiredCount |-> 1,
     Status |-> "ACTIVE"]
StatusOutputs ==
    {[err |-> e, services |-> <<>>] : e \in BOOLEAN}
    \cup {[err |-> FALSE, services |-> <<[Deployments |-> <<>>]>>]}
    \cup {[err |-> FALSE, services |-> <<[Deployments |-> <<d>>]>>] : d \in Deployments}
    \cup {[err |-> FALSE, services |-> <<[Deployments |-> <<d, OlderDeployment>>]>>] :
             d \in Deployments}

InitStatus ==
    /\ stPc = "call"
    /\ stOutput \in StatusOutputs
    /\ stResult = NoResult
    /\ clusterPages = <<<<>>>>
    /\ svcCount = [c \in ClusterIds |-> 0]
    /\ deleted = {}
    /\ InitMain
    /\ IdlePoll
    /\ IdleUI
    /\ IdleMetrics
    /\ IdleRun
    /\ IdleShell

\* output, err := ecsClient.DescribeServices(ctx, input) and the rest of the call
StatusCall ==
    /\ stPc = "call"
    /\ stResult' = GetServiceDeploymentStatus(stOutput)
    /\ stPc' = "done"
    /\ UNCHANGED <<aggVars, shellVars, runVars, metricVars, pollVars, uiVars, stOutput>>

StatusNext == StatusCall

SpecStatus == InitStatus /\ [][StatusNext]_vars

----------------------------------------------------------------------------
\* PollServiceUpdates

MaxPollSvc == 2         \* services handed to the poll loop
MaxTicks == 2           \* ticks the ticker fires

\* pkg.ServiceDetails{}: the zero value make([]pkg.ServiceDetails, n) is filled with
ZeroDetails ==
    [ServiceName |-> 0, RunningCount |-> 0, DesiredCount |-> 0, Status |-> "",
     Cluster |-> 0]

\* GetServiceDetails when DescribeServices answers: an error when no service is
\* described, else the details of output.Services[0].
GetServiceDetails(serviceName, cluster) ==
    LET out == DescribeOutput(cluster, <<serviceName>>)
    IN  IF Len(out) = 0
        THEN [details |-> ZeroDetails, err |-> TRUE]
        ELSE [details |-> ToServiceDetails(out[1], cluster), err |-> FALSE]

\* A variant that takes the next tick while a cycle is still fetching or sending.
AtSelectAnytime(pc) == pc \in {"select", "fetch", "send"}

\* The goroutine is at the select statement: the case body has run to its end.
AtSelect(pc) == pc = "select"

InitPoll ==
    /\ \E n \in 0..MaxPollSvc :
          pollServices = [k \in 1..n |-> ToServiceDetails(ProviderService(1, k), 1)]
    /\ deleted \in DeletedChoices
    /\ ctxDone = FALSE
    /\ ticks = 0
    /\ tickerC = 0
    /\ tickerStopped = FALSE
    /\ ppc = "select"
    /\ fi = 0
    /\ updatedServices = <<>>
    /\ updatesClosed = FALSE
    /\ received = <<>>
    /\ started = 0
    /\ finished = 0
    /\ consuming = TRUE
    /\ createdAt = -1
    /\ sliceId = 0
    /\ publishedIds = {}
    /\ clusterPages = <<<<>>>>
    /\ svcCount = [c \in ClusterIds |-> 0]
    /\ InitMain
    /\ IdleStatus
    /\ IdleUI
    /\ IdleMetrics
    /\ IdleRun
    /\ IdleShell

\* The application cancels the shared context.
Cancel ==
    /\ ~ctxDone
    /\ ctxDone' = TRUE
    /\ UNCHANGED <<aggVars, shellVars, runVars, metricVars, statusVars, uiVars, sliceVars, envVars, pollServices, ticks, tickerC, tickerStopped,
                   ppc, fi, updatedServices, updatesClosed, received, started, finished>>

\* The ticker fires: the tick waits in ticker.C, or is dropped when one waits already.
Tick ==
    /\ ~tickerStopped
    /\ ticks < MaxTicks
    /\ ticks' = ticks + 1
    /\ tickerC' = 1
    /\ UNCHANGED <<aggVars, shellVars, runVars, metricVars, statusVars, uiVars, sliceVars, envVars, pollServices, ctxDone, tickerStopped,
                   ppc, fi, updatedServices, updatesClosed, received, started, finished>>

\* case <-ctx.Done(): return, with the deferred close(updates) and ticker.Stop()
SelectDone ==
    /\ AtSelect(ppc)
    /\ ctxDone
    /\ ppc' = "done"
    /\ updatesClosed' = TRUE
    /\ tickerStopped' = TRUE
    /\ UNCHANGED <<aggVars, shellVars, runVars, metricVars, statusVars, uiVars, sliceVars, envVars, pollServices, ctxDone, ticks, tickerC,
                   fi, updatedServices, received, started, finished>>

\* A variant that makes the slice once, before the loop, and fills it again
\* on every tick.
NewSliceOnce(id) == IF id = 0 THEN 1 ELSE id

\* make([]pkg.ServiceDetails, len(services)): a backing array of its own
NewSlice(id) == id + 1

\* case <-ticker.C: updatedServices := make([]pkg.ServiceDetails, len(services))
SelectTick ==
    /\ AtSelect(ppc)
    /\ tickerC = 1
    /\ tickerC' = 0
    /\ updatedServices' = [k \in 1..Len(pollServices) |-> ZeroDetails]
    /\ sliceId' = NewSlice(sliceId)
    /\ fi' = 0
    /\ started' = started + 1
    /\ ppc' = "fetch"
    /\ UNCHANGED <<aggVars, shellVars, runVars, metricVars, statusVars, uiVars, publishedIds, envVars, pollServices, ctxDone, ticks, tickerStopped,
                   updatesClosed, received, finished>>

\* details, err := GetServiceDetails(...) answers; updatedServices[i] = details,
\* or continue when no service is described.
FetchAnswered ==
    /\ ppc = "fetch"
    /\ fi < Len(pollServices)
    /\ ~ctxDone
    /\ LET r == GetServiceDetails(pollServices[fi + 1].ServiceName,
                                  pollServices[fi + 1].Cluster)
       IN  updatedServices' =
              IF r.err THEN updatedServices
              ELSE [updatedServices EXCEPT ![fi + 1] = r.details]
    /\ fi' = fi + 1
    /\ UNCHANGED <<aggVars, shellVars, runVars, metricVars, statusVars, uiVars, sliceVars, envVars, pollServices, ctxDone, ticks, tickerC,
                   tickerStopped, ppc, updatesClosed, received, started, finished>>

\* A variant whose continue leaves the tick's case: nothing is sent for the tick.
OnFetchErrorSkipTick(pc) == "select"

\* if err != nil { continue }: the range loop goes on with the next service.
OnFetchError(pc) == pc

\* DescribeServices fails (the transport, or the cancelled context): continue.
FetchFailed ==
    /\ ppc = "fetch"
    /\ fi < Len(pollServices)
    /\ fi' = fi + 1
    /\ ppc' = OnFetchError(ppc)
    /\ UNCHANGED <<aggVars, shellVars, runVars, metricVars, statusVars, uiVars, sliceVars, envVars, pollServices, ctxDone, ticks, tickerC,
                   tickerStopped, updatedServices, updatesClosed, received,
                   started, finished>>

\* The range loop ends: the goroutine reaches updates <- updatedServices.
FetchEnd ==
    /\ ppc = "fetch"
    /\ fi >= Len(pollServices)
    /\ ppc' = "send"
    /\ UNCHANGED <<aggVars, shellVars, runVars, metricVars, statusVars, uiVars, sliceVars, envVars, pollServices, ctxDone, ticks, tickerC,
                   tickerStopped, fi, updatedServices, updatesClosed, received,
                   started, finished>>

\* updates <- updatedServices meets the consumer's receive (for ... range updates).
Publish ==
    /\ ppc = "send"
    /\ consuming
    /\ received' = Append(received, updatedServices)
    /\ publishedIds' = publishedIds \cup {sliceId}
    /\ finished' = finished + 1
    /\ ppc' = "select"
    /\ UNCHANGED <<aggVars, shellVars, runVars, metricVars, statusVars, uiVars, sliceId, envVars, pollServices, ctxDone, ticks, tickerC,
                   tickerStopped, fi, updatedServices, updatesClosed, started>>

\* The consumer stops receiving: its QueueUpdateDraw no longer returns once the
\* application has stopped, and updates is unbuffered.
ConsumerStops ==
    /\ consuming
    /\ consuming' = FALSE
    /\ UNCHANGED <<aggVars, shellVars, runVars, metricVars, statusVars, uiVars, sliceVars, createdAt, pollServices, ctxDone, ticks,
                   tickerC, tickerStopped, ppc, fi, updatedServices, updatesClosed,
                   received, started, finished>>

\* The provider gains a service the services argument does not name.
ProviderCreates ==
    /\ createdAt = -1
    /\ createdAt' = started
    /\ UNCHANGED <<aggVars, shellVars, runVars, metricVars, statusVars, uiVars, sliceVars, consuming, pollServices, ctxDone, ticks,
                   tickerC, tickerStopped, ppc, fi, updatedServices, updatesClosed,
                   received, started, finished>>

\* The steps of the goroutine PollServiceUpdates starts.
PollStep ==
    \/ SelectDone
    \/ SelectTick
    \/ FetchAnswered
    \/ FetchFailed
    \/ FetchEnd
    \/ Publish

PollNext ==
    \/ Cancel
    \/ Tick
    \/ ConsumerStops
    \/ ProviderCreates
    \/ SelectDone
    \/ SelectTick
    \/ FetchAnswered
    \/ FetchFailed
    \/ FetchEnd
    \/ Publish

SpecPoll == InitPoll /\ [][PollNext]_vars

\* The variant of PollServiceUpdates whose tick is one GetAllServiceDetails
\* call, seen by its result: the services, or the error of listClusters.
FullSelectTick ==
    /\ AtSelect(ppc)
    /\ tickerC = 1
    /\ tickerC' = 0
    /\ started' = started + 1
    /\ ppc' = "fullFetch"
    /\ UNCHANGED <<aggVars, statusVars, uiVars, metricVars, runVars, shellVars,
                   sliceVars, envVars, pollServices, ctxDone, ticks, tickerStopped,
                   fi, updatedServices, updatesClosed, received, finished>>

\* services, err := GetAllServiceDetails(...) with a nil error
FullFetchOk(n) ==
    /\ ppc = "fullFetch"
    /\ updatedServices' = [k \in 1..n |-> ToServiceDetails(ProviderService(1, k), 1)]
    /\ sliceId' = NewSlice(sliceId)
    /\ ppc' = "send"
    /\ UNCHANGED <<aggVars, statusVars, uiVars, metricVars, runVars, shellVars,
                   publishedIds, envVars, pollServices, ctxDone, ticks, tickerC,
                   tickerStopped, fi, updatesClosed, received, started, finished>>

\* A variant that returns from the goroutine on an error.
OnFullFetchErrorReturn(pc) == "done"

\* if err != nil { log.Printf(...); continue }: back to the select
OnFullFetchError(pc) == "select"

\* GetAllServiceDetails returns the error of listClusters
FullFetchFailed ==
    /\ ppc = "fullFetch"
    /\ ppc' = OnFullFetchError(ppc)
    /\ UNCHANGED <<aggVars, statusVars, uiVars, metricVars, runVars, shellVars,
                   sliceVars, envVars, pollServices, ctxDone, ticks, tickerC,
                   tickerStopped, fi, updatedServices, updatesClosed, received,
                   started, finished>>

SpecFullPoll ==
    InitPoll /\ [][\/ Cancel
                  \/ Tick
                  \/ SelectDone
                  \/ FullSelectTick
                  \/ \E n \in 0..MaxPollSvc : FullFetchOk(n)
                  \/ FullFetchFailed
                  \/ Publish]_vars

\* The scheduler runs the goroutine whenever it can take a step, and a select
\* with several ready cases picks among them at random: a cancelled context
\* is taken at some visit of the select.
PollFairness == WF_vars(PollStep) /\ SF_vars(SelectDone)

SpecPollFair == InitPoll /\ [][PollNext]_vars /\ PollFairness

----------------------------------------------------------------------------
\* The services the UI is given. A name is a string, written as its characters.
MaxUISvc == 2           \* services of the UI's snapshot
MaxRestartSvc == 3      \* services handed to restartAllServices

UINames == << <<"A", "b">>, <<"b", "c">>, <<"C", "a">>, <<"d", "d">> >>

UIService(k) ==
    LET svc == [ProviderService((k % 2) + 1, k) EXCEPT
                   !.ServiceName = UINames[((k - 1) % Len(UINames)) + 1]]
    IN  ToServiceDetails(svc, (k % 2) + 1)

\* strings.ToLower(status), for the statuses the provider reports
LowerStatus(status) ==
    CASE status = "ACTIVE" -> "active"
      [] status = "DRAINING" -> "draining"
      [] status = "INACTIVE" -> "inactive"
      [] OTHER -> status

\* updateList: the colour tag of a status
StatusColor(status) ==
    CASE LowerStatus(status) = "active" -> "[green]"
      [] LowerStatus(status) = "draining" -> "[yellow]"
      [] LowerStatus(status) = "inactive" -> "[red]"
      [] OTHER -> "[white]"

\* fmt.Sprintf("%s (Running: %d, Desired: %d) - Status: %s%s[-]", ...): the
\* line's arguments in order
ListLine(service) ==
    <<service.ServiceName, service.RunningCount, service.DesiredCount,
      StatusColor(service.Status), service.Status>>

\* updateList: one item for each filtered service
ListLines(svcs) == [k \in 1..Len(svcs) |-> ListLine(svcs[k])]

\* ecs.UpdateServiceInput; a nil DesiredCount is <<>>, a set one <<n>>
UpdateInput(serviceName, cluster, desiredCount, force) ==
    [Cluster |-> cluster, Service |-> serviceName, DesiredCount |-> desiredCount,
     ForceNewDeployment |-> force]

\* RestartService's input
RestartInput(serviceName, cluster) == UpdateInput(serviceName, cluster, <<>>, TRUE)

\* ecsClient.UpdateService(ctx, input) has been sent and has answered
Sent(input, err) == Append(updateReqs, [input |-> input, err |-> err])

----------------------------------------------------------------------------
\* restartAllServices

\* A variant that sends the name whatever RestartService returned.
SendFailedAlways(ch, name, err) == Append(ch, name)

\* if err := aws.RestartService(...); err != nil { failedServices <- s.ServiceName }
SendFailed(ch, name, err) == IF err THEN Append(ch, name) ELSE ch

\* A variant without wg.Wait().
RestartWaitSkip(w) == TRUE

\* wg.Wait()
RestartWaitDone(w) == w = 0

\* The text the queued function shows.
RestartReport(names) ==
    IF Len(names) > 0
    THEN <<"Failed to restart services: %v", names>>
    ELSE <<"All services have been restarted successfully.">>

\* go restartAllServices(app, ctx, ecsClient, services, layout)
StartRestartAll(svcs) ==
    /\ rServices = svcs
    /\ rpc = "spawn"
    /\ rIdx = 0
    /\ rWg = 0
    /\ wpc = [k \in 1..Len(svcs) |-> "none"]
    /\ failedServices = <<>>
    /\ failed = <<>>
    /\ rMessages = <<>>

InitRestart ==
    /\ \E n \in 0..MaxRestartSvc :
          LET svcs == [k \in 1..n |-> UIService(k)]
          IN  /\ StartRestartAll(svcs)
              /\ ViewOf(svcs, ListLines(svcs))
    /\ updateReqs = <<>>
    /\ clusterPages = <<<<>>>>
    /\ svcCount = [c \in ClusterIds |-> 0]
    /\ deleted = {}
    /\ InitMain
    /\ IdleStatus
    /\ IdlePoll
    /\ IdleMetrics
    /\ IdleRun
    /\ IdleShell

\* for _, service := range services { wg.Add(1); go func(s) {...}(service) }
RSpawn ==
    /\ rpc = "spawn"
    /\ rIdx < Len(rServices)
    /\ rWg' = rWg + 1
    /\ wpc' = [wpc EXCEPT ![rIdx + 1] = "ready"]
    /\ rIdx' = rIdx + 1
    /\ UNCHANGED <<aggVars, shellVars, runVars, metricVars, statusVars, pollVars, updateReqs, viewVars, rServices,
                   rpc, failedServices, failed, rMessages>>

\* The range loop ends.
RLoopEnd ==
    /\ rpc = "spawn"
    /\ rIdx >= Len(rServices)
    /\ rpc' = "wait"
    /\ UNCHANGED <<aggVars, shellVars, runVars, metricVars, statusVars, pollVars, updateReqs, viewVars, rServices,
                   rIdx, rWg, wpc, failedServices, failed, rMessages>>

\* Goroutine i calls aws.RestartService: its UpdateService request is in flight.
WorkerCall(i) ==
    /\ wpc[i] = "ready"
    /\ wpc' = [wpc EXCEPT ![i] = "call"]
    /\ UNCHANGED <<aggVars, shellVars, runVars, metricVars, statusVars, pollVars, updateReqs, viewVars, rServices,
                   rpc, rIdx, rWg, failedServices, failed, rMessages>>

\* RestartService returns to goroutine i; the deferred wg.Done() runs.
WorkerReturn(i, err) ==
    /\ wpc[i] = "call"
    /\ err => CanSend(failedServices, Len(rServices))
    /\ updateReqs' =
          Sent(RestartInput(rServices[i].ServiceName, rServices[i].Cluster), err)
    /\ failedServices' = SendFailed(failedServices, rServices[i].ServiceName, err)
    /\ wpc' = [wpc EXCEPT ![i] = IF err THEN "err" ELSE "ok"]
    /\ rWg' = rWg - 1
    /\ UNCHANGED <<aggVars, shellVars, runVars, metricVars, statusVars, pollVars, viewVars, rServices, rpc, rIdx,
                   failed, rMessages>>

\* wg.Wait(); close(failedServices)
RWaitClose ==
    /\ rpc = "wait"
    /\ RestartWaitDone(rWg)
    /\ rpc' = "drain"
    /\ UNCHANGED <<aggVars, shellVars, runVars, metricVars, statusVars, pollVars, updateReqs, viewVars, rServices,
                   rIdx, rWg, wpc, failedServices, failed, rMessages>>

\* for s := range failedServices { failed = append(failed, s) }
RDrain ==
    /\ rpc = "drain"
    /\ failed' = failedServices
    /\ rpc' = "report"
    /\ UNCHANGED <<aggVars, shellVars, runVars, metricVars, statusVars, pollVars, updateReqs, viewVars, rServices,
                   rIdx, rWg, wpc, failedServices, rMessages>>

\* app.QueueUpdateDraw(func() {...})
RReport ==
    /\ rpc = "report"
    /\ rMessages' = Append(rMessages, RestartReport(failed))
    /\ rpc' = "queued"
    /\ UNCHANGED <<aggVars, shellVars, runVars, metricVars, statusVars, pollVars, updateReqs, viewVars, rServices,
                   rIdx, rWg, wpc, failedServices, failed>>

\* The application runs the queued function: showMessage(app, ..., layout)
ShowReport ==
    /\ rpc = "queued"
    /\ messageText' = rMessages[Len(rMessages)]
    /\ root' = "message"
    /\ rpc' = "done"
    /\ modalService' = NoService
    /\ promptServices' = <<>>
    /\ inputText' = <<>>
    /\ lastKey' = "none"
    /\ UNCHANGED <<aggVars, shellVars, runVars, metricVars, statusVars, pollVars, updateReqs, stateVars, searchText,
                   focus, rServices, rIdx,
                   rWg, wpc, failedServices, failed, rMessages>>

RestartNext ==
    \/ RSpawn
    \/ RLoopEnd
    \/ \E i \in 1..Len(rServices) : WorkerCall(i)
    \/ \E i \in 1..Len(rServices), err \in BOOLEAN : WorkerReturn(i, err)
    \/ RWaitClose
    \/ RDrain
    \/ RReport
    \/ ShowReport

SpecRestart == InitRestart /\ [][RestartNext]_vars

\* Both fan-outs, with every goroutine that can run being run and every
\* provider call returning. Under InitRestart the aggregation has no cluster;
\* under InitFan it has up to MaxClusters clusters of MaxSvc services, listed
\* in one page.
FanNext == Next \/ RestartNext

InitFan ==
    /\ \E nc \in 0..MaxClusters :
          /\ clusterPages = <<[c \in 1..nc |-> c]>>
          /\ svcCount = [c \in ClusterIds |-> IF c <= nc THEN MaxSvc ELSE 0]
    /\ deleted = {}
    /\ InitMain
    /\ IdleStatus
    /\ IdlePoll
    /\ IdleUI
    /\ IdleMetrics
    /\ IdleRun
    /\ IdleShell

SpecFan == (InitFan \/ InitRestart) /\ [][FanNext]_vars /\ WF_vars(FanNext)

----------------------------------------------------------------------------
\* ServiceUI: the list, the search field and the modals
MaxReqs == 1            \* UpdateService requests the user's own actions send

\* The search texts the user types: "", "a", "C", "bC", "x"
Queries == {<<>>, <<"a">>, <<"C">>, <<"b", "C">>, <<"x">>}

\* The texts the user types into the count prompt: "", "x", "-", "1", "-1", "1x"
InputTexts == {<<>>, <<"x">>, <<"-">>, <<"1">>, <<"-", "1">>, <<"1", "x">>}

\* strings.ToLower
LowerChar(ch) ==
    CASE ch = "A" -> "a"
      [] ch = "B" -> "b"
      [] ch = "C" -> "c"
      [] OTHER -> ch

ToLower(str) == [k \in 1..Len(str) |-> LowerChar(str[k])]

\* A variant that matches at the start of the name only (strings.HasPrefix).
ContainsAtStart(str, substr) ==
    Len(substr) <= Len(str) /\ SubSeq(str, 1, Len(substr)) = substr

\* strings.Contains
Contains(str, substr) ==
    \E i \in 0..(Len(str) - Len(substr)) : SubSeq(str, i + 1, i + Len(substr)) = substr

\* filterServices: the services it leaves in filteredServices
FilterServices(svcs, query) ==
    IF query = <<>> THEN svcs
    ELSE SelectSeq(svcs, LAMBDA v : Contains(ToLower(v.ServiceName), ToLower(query)))

\* A variant of filterServices that leaves the list as it was.
FilterWithoutList(svcs, query) ==
    /\ filteredServices' = FilterServices(svcs, query)
    /\ listItems' = listItems

\* filterServices(query) over the snapshot `svcs`, and its updateList()
FilterAndList(svcs, query) ==
    /\ filteredServices' = FilterServices(svcs, query)
    /\ listItems' = ListLines(FilterServices(svcs, query))

IsDigit(ch) == \E d \in 1..Len(Digits) : Digits[d] = ch

DigitValue(ch) == (CHOOSE d \in 1..Len(Digits) : Digits[d] = ch) - 1

RECURSIVE DecimalValue(_)
DecimalValue(str) ==
    IF str = <<>> THEN 0
    ELSE 10 * DecimalValue(SubSeq(str, 1, Len(str) - 1)) + DigitValue(str[Len(str)])

\* strconv.Atoi: an optional sign, then one decimal digit or more
Atoi(str) ==
    LET signed == str # <<>> /\ str[1] \in {"+", "-"}
        digits == IF signed THEN Tail(str) ELSE str
    IN  IF digits = <<>> \/ \E k \in 1..Len(digits) : ~IsDigit(digits[k])
        THEN [value |-> 0, err |-> TRUE]
        ELSE [value |-> IF signed /\ str[1] = "-" THEN 0 - DecimalValue(digits)
                        ELSE DecimalValue(digits),
              err |-> FALSE]

\* UpdateServiceDesiredCount: the request it sends, and what it returns. The
\* counts of this model fit int32, so int32(desiredCount) is desiredCount.
UpdateServiceDesiredCount(serviceName, cluster, desiredCount, providerErr) ==
    [reqs |-> Sent(UpdateInput(serviceName, cluster, <<desiredCount>>, FALSE),
                   providerErr),
     err |-> providerErr]

\* RestartService: the request it sends, and what it returns.
RestartService(serviceName, cluster, providerErr) ==
    [reqs |-> Sent(RestartInput(serviceName, cluster), providerErr),
     err |-> providerErr]

\* The desired count the provider holds for a service: that of the last
\* UpdateService request it accepted, else the one it started with.
RECURSIVE LastAccepted(_, _, _, _)
LastAccepted(reqs, serviceName, cluster, initial) ==
    IF reqs = <<>> THEN initial
    ELSE LET r == reqs[Len(reqs)]
         IN  IF /\ ~r.err
                /\ r.input.Service = serviceName
                /\ r.input.Cluster = cluster
                /\ r.input.DesiredCount # <<>>
             THEN r.input.DesiredCount[1]
             ELSE LastAccepted(SubSeq(reqs, 1, Len(reqs) - 1), serviceName, cluster,
                               initial)

\* The snapshot a poll tick builds for the services the UI started with.
ProviderSnapshot ==
    [k \in 1..Len(currentServices) |->
        [UIService(k) EXCEPT
            !.DesiredCount = LastAccepted(updateReqs, UIService(k).ServiceName,
                                          UIService(k).Cluster,
                                          UIService(k).DesiredCount)]]

\* A variant that restarts the services the list shows.
RestartAllTargetsVisible(current, filtered) == filtered

\* case 'R': showRestartAllServicesPrompt(..., s.currentServices, s.layout)
RestartAllTargets(current, filtered) == current

\* A variant that reports success whatever UpdateServiceDesiredCount returned.
UpdateMessageIgnoreErr(serviceName, count, err) ==
    <<"Updated %s to desired count %d. The running count will update shortly.",
      serviceName, count>>

\* showDesiredCountPrompt: the message after UpdateServiceDesiredCount returned
UpdateMessage(serviceName, count, err) ==
    IF err THEN <<"Failed to update service: %v", serviceName>>
    ELSE <<"Updated %s to desired count %d. The running count will update shortly.",
           serviceName, count>>

\* restartService: the message after RestartService returned
RestartMessage(serviceName, err) ==
    IF err THEN <<"Failed to restart service: %v", serviceName>>
    ELSE <<"Service %s has been restarted.", serviceName>>

\* A variant that writes the new count into the service's line at once.
ItemsAfterUpdateEcho(items, service, count) ==
    [k \in 1..Len(items) |->
        IF items[k][1] = service.ServiceName
        THEN ListLine([service EXCEPT !.DesiredCount = count])
        ELSE items[k]]

\* showDesiredCountPrompt after a successful update: the list's items
ItemsAfterUpdate(items, service, count) == items

InitUI ==
    /\ \E n \in 0..MaxUISvc :
          LET svcs == [k \in 1..n |-> UIService(k)]
          IN  ViewOf(svcs, ListLines(svcs))
    /\ updateReqs = <<>>
    /\ IdleRestart
    /\ clusterPages = <<<<>>>>
    /\ svcCount = [c \in ClusterIds |-> 0]
    /\ deleted = {}
    /\ InitMain
    /\ IdleStatus
    /\ IdlePoll
    /\ IdleMetrics
    /\ IdleRun
    /\ IdleShell

\* case '/' (and KeyUp on the first item): s.app.SetFocus(s.searchInput)
FocusSearch ==
    /\ root = "layout"
    /\ focus = "list"
    /\ focus' = "search"
    /\ UNCHANGED <<aggVars, shellVars, runVars, metricVars, statusVars, pollVars, updateReqs, restartVars, stateVars,
                   searchText, root, modalService, promptServices, messageText,
                   inputText, lastKey>>

\* The search text changes: SetChangedFunc's s.filterServices(text)
SearchChanged(text) ==
    /\ root = "layout"
    /\ focus = "search"
    /\ text # searchText
    /\ searchText' = text
    /\ FilterAndList(currentServices, text)
    /\ UNCHANGED <<aggVars, shellVars, runVars, metricVars, statusVars, pollVars, updateReqs, restartVars,
                   currentServices, focus, root, modalService, promptServices,
                   messageText, inputText, lastKey>>

\* Esc in the search field: the text is cleared, the filter removed
SearchEsc ==
    /\ root = "layout"
    /\ focus = "search"
    /\ searchText' = <<>>
    /\ FilterAndList(currentServices, <<>>)
    /\ focus' = "list"
    /\ UNCHANGED <<aggVars, shellVars, runVars, metricVars, statusVars, pollVars, updateReqs, restartVars,
                   currentServices, root, modalService, promptServices, messageText,
                   inputText, lastKey>>

\* Enter or Down in the search field: the list gets the focus when it has items
SearchEnter ==
    /\ root = "layout"
    /\ focus = "search"
    /\ Len(listItems) > 0
    /\ focus' = "list"
    /\ UNCHANGED <<aggVars, shellVars, runVars, metricVars, statusVars, pollVars, updateReqs, restartVars, stateVars,
                   searchText, root, modalService, promptServices, messageText,
                   inputText, lastKey>>

\* The queued function of startPolling runs: a snapshot replaces currentServices
ApplySnapshot ==
    /\ currentServices # <<>>
    /\ currentServices' = ProviderSnapshot
    /\ currentServices' # currentServices
    /\ FilterAndList(ProviderSnapshot, searchText)
    /\ UNCHANGED <<aggVars, shellVars, runVars, metricVars, statusVars, pollVars, updateReqs, restartVars, searchText,
                   focus, root, modalService, promptServices, messageText, inputText, lastKey>>

\* Item i of the list is selected: showServiceOptions(..., s.filteredServices[index], ...)
SelectItem(i) ==
    /\ root = "layout"
    /\ focus = "list"
    /\ modalService' = filteredServices[i]
    /\ root' = "options"
    /\ UNCHANGED <<aggVars, shellVars, runVars, metricVars, statusVars, pollVars, updateReqs, restartVars, stateVars,
                   searchText, focus, promptServices, messageText, inputText, lastKey>>

\* "Change Desired Count": showDesiredCountPrompt sets a new input field as root
OptionsCount ==
    /\ root = "options"
    /\ inputText' = <<>>
    /\ lastKey' = "none"
    /\ root' = "count"
    /\ UNCHANGED <<aggVars, shellVars, runVars, metricVars, statusVars, pollVars, updateReqs, restartVars, stateVars,
                   searchText, focus, modalService, promptServices, messageText>>

\* "Restart Service": restartService calls RestartService and shows the outcome
OptionsRestart(providerErr) ==
    /\ root = "options"
    /\ Len(updateReqs) < MaxReqs
    /\ LET r == RestartService(modalService.ServiceName, modalService.Cluster,
                               providerErr)
       IN  /\ updateReqs' = r.reqs
           /\ messageText' = RestartMessage(modalService.ServiceName, r.err)
    /\ root' = "message"
    /\ modalService' = NoService
    /\ UNCHANGED <<aggVars, shellVars, runVars, metricVars, statusVars, pollVars, restartVars, stateVars, searchText,
                   focus, promptServices, inputText, lastKey>>

\* "Cancel": app.SetRoot(layout, true)
OptionsCancel ==
    /\ root = "options"
    /\ root' = "layout"
    /\ focus' = "list"
    /\ modalService' = NoService
    /\ UNCHANGED <<aggVars, shellVars, runVars, metricVars, statusVars, pollVars, updateReqs, restartVars, stateVars,
                   searchText, promptServices, messageText, inputText, lastKey>>

\* The user edits the count prompt's field.
TypeCount(text) ==
    /\ root = "count"
    /\ text # inputText
    /\ inputText' = text
    /\ UNCHANGED lastKey
    /\ UNCHANGED <<aggVars, shellVars, runVars, metricVars, statusVars, pollVars, updateReqs, restartVars, stateVars,
                   searchText, focus, root, modalService, promptServices, messageText>>

\* A variant whose done function closes the prompt on Esc.
PromptAfterKeyEscCloses(key) == IF key = "Esc" THEN "layout" ELSE "count"

\* inputField.SetDoneFunc: keys other than Enter are given no branch
PromptAfterKey(key) == "count"

\* Esc, Tab or Backtab in the count prompt: the done function is called with
\* the key and does nothing
PromptKey(key) ==
    /\ root = "count"
    /\ key # lastKey
    /\ lastKey' = key
    /\ root' = PromptAfterKey(key)
    /\ UNCHANGED <<aggVars, statusVars, pollVars, metricVars, runVars, shellVars,
                   updateReqs, restartVars, stateVars, searchText, focus,
                   modalService, promptServices, messageText, inputText>>

\* Enter in the count prompt, the text not parsed by strconv.Atoi
SubmitInvalid ==
    /\ root = "count"
    /\ Atoi(inputText).err
    /\ messageText' = <<"Invalid input. Please enter a positive integer.">>
    /\ root' = "message"
    /\ inputText' = <<>>
    /\ lastKey' = "none"
    /\ modalService' = NoService
    /\ UNCHANGED <<aggVars, shellVars, runVars, metricVars, statusVars, pollVars, updateReqs, restartVars, stateVars,
                   searchText, focus, promptServices>>

\* Enter in the count prompt, the text parsed: UpdateServiceDesiredCount is
\* called and its outcome shown
SubmitCount(providerErr) ==
    /\ root = "count"
    /\ ~Atoi(inputText).err
    /\ Len(updateReqs) < MaxReqs
    /\ LET newDesiredCount == Atoi(inputText).value
           r == UpdateServiceDesiredCount(modalService.ServiceName,
                                          modalService.Cluster, newDesiredCount,
                                          providerErr)
       IN  /\ updateReqs' = r.reqs
           /\ messageText' =
                  UpdateMessage(modalService.ServiceName, newDesiredCount, r.err)
           /\ listItems' =
                  IF r.err THEN listItems
                  ELSE ItemsAfterUpdate(listItems, modalService, newDesiredCount)
    /\ root' = "message"
    /\ inputText' = <<>>
    /\ lastKey' = "none"
    /\ modalService' = NoService
    /\ UNCHANGED <<aggVars, shellVars, runVars, metricVars, statusVars, pollVars, restartVars, currentServices,
                   filteredServices, searchText, focus, promptServices>>

\* "OK" on the message modal: app.SetRoot(previousView, true)
MessageOk ==
    /\ root = "message"
    /\ root' = "layout"
    /\ focus' = "list"
    /\ messageText' = <<>>
    /\ UNCHANGED <<aggVars, shellVars, runVars, metricVars, statusVars, pollVars, updateReqs, restartVars, stateVars,
                   searchText, modalService, promptServices, inputText, lastKey>>

\* A variant whose 'R' starts restartAllServices before the modal is answered.
AfterPressRStarted(pc) == "spawn"

\* showRestartAllServicesPrompt only builds the modal and sets it as the root
AfterPressR(pc) == pc

\* case 'R': the restart-all prompt is shown over the list
PressR ==
    /\ root = "layout"
    /\ focus = "list"
    /\ promptServices' = RestartAllTargets(currentServices, filteredServices)
    /\ root' = "restartAll"
    /\ rpc' = AfterPressR(rpc)
    /\ UNCHANGED <<aggVars, shellVars, runVars, metricVars, statusVars, pollVars, updateReqs, stateVars,
                   searchText, focus, modalService, messageText, inputText, lastKey,
                   rServices, rIdx, rWg, wpc, failedServices, failed, rMessages>>

\* "Yes": go restartAllServices(app, ctx, ecsClient, services, layout)
RestartAllYes ==
    /\ root = "restartAll"
    /\ rpc = "idle"
    /\ rServices' = promptServices
    /\ rpc' = "spawn"
    /\ wpc' = [k \in 1..Len(promptServices) |-> "none"]
    /\ root' = "layout"
    /\ focus' = "list"
    /\ promptServices' = <<>>
    /\ UNCHANGED <<aggVars, shellVars, runVars, metricVars, statusVars, pollVars, updateReqs, stateVars, searchText,
                   modalService, messageText, inputText, lastKey, rIdx, rWg,
                   failedServices, failed, rMessages>>

\* "No": app.SetRoot(layout, true)
RestartAllNo ==
    /\ root = "restartAll"
    /\ root' = "layout"
    /\ focus' = "list"
    /\ promptServices' = <<>>
    /\ UNCHANGED <<aggVars, shellVars, runVars, metricVars, statusVars, pollVars, updateReqs, restartVars, stateVars,
                   searchText, modalService, messageText, inputText, lastKey>>

UINext ==
    \/ FocusSearch
    \/ \E text \in Queries : SearchChanged(text)
    \/ SearchEsc
    \/ SearchEnter
    \/ ApplySnapshot
    \/ \E i \in 1..Len(listItems) : SelectItem(i)
    \/ OptionsCount
    \/ \E providerErr \in BOOLEAN : OptionsRestart(providerErr)
    \/ OptionsCancel
    \/ \E text \in InputTexts : TypeCount(text)
    \/ \E key \in {"Esc", "Tab", "Backtab"} : PromptKey(key)
    \/ SubmitInvalid
    \/ \E providerErr \in BOOLEAN : SubmitCount(providerErr)
    \/ MessageOk
    \/ PressR
    \/ RestartAllYes
    \/ RestartAllNo

SpecUI == InitUI /\ [][UINext]_vars

----------------------------------------------------------------------------
\* The variant of the gateway that reads utilization metrics (the CloudWatch
\* client): the loop of describeServicesInBatches over the services of one
\* DescribeServices output, one getServiceMetrics call a service.
MaxMetricSvc == 3
metricsCluster == 1

\* What GetMetricStatistics can answer: an error, no datapoint, one datapoint.
MetricAnswers(average) ==
    {[err |-> TRUE, Datapoints |-> <<>>],
     [err |-> FALSE, Datapoints |-> <<>>],
     [err |-> FALSE, Datapoints |-> <<average>>]}

getMetric(answer) ==
    IF answer.err THEN [value |-> 0, err |-> TRUE]
    ELSE IF Len(answer.Datapoints) = 0 THEN [value |-> 0, err |-> FALSE]
    ELSE [value |-> answer.Datapoints[1], err |-> FALSE]

\* The memory query is sent only when the CPU query succeeded.
getServiceMetrics(cpuAnswer, memAnswer) ==
    LET cpuUtilization == getMetric(cpuAnswer)
        memoryUtilization == getMetric(memAnswer)
    IN  IF cpuUtilization.err \/ memoryUtilization.err
        THEN [CPUUtilization |-> 0, MemoryUtilization |-> 0, err |-> TRUE]
        ELSE [CPUUtilization |-> cpuUtilization.value,
              MemoryUtilization |-> memoryUtilization.value,
              err |-> FALSE]

\* A variant that skips a service whose metrics could not be read.
AppendWithMetricsOrSkip(acc, service, cluster, metrics) ==
    IF metrics.err THEN acc
    ELSE Append(acc, [ServiceName |-> service.ServiceName,
                      RunningCount |-> service.RunningCount,
                      DesiredCount |-> service.DesiredCount,
                      Status |-> service.Status,
                      Cluster |-> cluster,
                      CPUUtilization |-> metrics.CPUUtilization,
                      MemoryUtilization |-> metrics.MemoryUtilization])

\* if err != nil { metrics = &ServiceMetrics{0, 0} }; services = append(...)
AppendWithMetrics(acc, service, cluster, metrics) ==
    LET used == IF metrics.err
                THEN [CPUUtilization |-> 0, MemoryUtilization |-> 0]
                ELSE [CPUUtilization |-> metrics.CPUUtilization,
                      MemoryUtilization |-> metrics.MemoryUtilization]
    IN  Append(acc, [ServiceName |-> service.ServiceName,
                     RunningCount |-> service.RunningCount,
                     DesiredCount |-> service.DesiredCount,
                     Status |-> service.Status,
                     Cluster |-> cluster,
                     CPUUtilization |-> used.CPUUtilization,
                     MemoryUtilization |-> used.MemoryUtilization])

InitMetrics ==
    /\ clusterPages = <<<<>>>>
    /\ svcCount = [c \in ClusterIds |-> 0]
    /\ deleted = {}
    /\ InitMain
    /\ IdleStatus
    /\ IdlePoll
    /\ IdleUI
    /\ \E n \in 0..MaxMetricSvc :
          metricsOutput = [k \in 1..n |-> ProviderService(metricsCluster, k)]
    /\ metricsIdx = 0
    /\ metricsServices = <<>>
    /\ metricsFailed = {}
    /\ IdleRun
    /\ IdleShell

\* One turn of the range loop: the two queries, then the append.
MetricsStep(cpuAnswer, memAnswer) ==
    /\ metricsIdx < Len(metricsOutput)
    /\ LET service == metricsOutput[metricsIdx + 1]
           metrics == getServiceMetrics(cpuAnswer, memAnswer)
       IN  /\ metricsServices' =
                AppendWithMetrics(metricsServices, service, metricsCluster, metrics)
           /\ metricsFailed' =
                IF metrics.err THEN metricsFailed \cup {metricsIdx + 1}
                ELSE metricsFailed
    /\ metricsIdx' = metricsIdx + 1
    /\ UNCHANGED <<aggVars, shellVars, runVars, statusVars, pollVars, uiVars, metricsOutput>>

SpecMetrics ==
    InitMetrics /\ [][\E cpuAnswer \in MetricAnswers(50), memAnswer \in MetricAnswers(70) :
                        MetricsStep(cpuAnswer, memAnswer)]_vars

----------------------------------------------------------------------------
\* runCLI, the root command. The earlier variant starts with GetCallerIdentity;
\* the one of main.go loads the SDK configuration and makes the ECS client.
InitRun ==
    /\ clusterPages = <<<<>>>>
    /\ svcCount = [c \in ClusterIds |-> 0]
    /\ deleted = {}
    /\ InitMain
    /\ IdleStatus
    /\ IdlePoll
    /\ updateReqs = <<>>
    /\ IdleRestart
    /\ ViewOf(<<>>, <<>>)
    /\ IdleMetrics
    /\ runVariant \in {"main.go", "earlier"}
    /\ runPc = "start"
    /\ runCalls = <<>>
    /\ runServices = <<>>
    /\ diagnostic = ""
    /\ IdleShell

\* log.Fatalf(format, err): the message is printed and the process exits.
Fatalf(message) ==
    /\ diagnostic' = message
    /\ runPc' = "exited"

\* err := aws.GetCallerIdentity(); if err != nil { log.Fatalf(...) }
RunIdentity(err) ==
    /\ runVariant = "earlier"
    /\ runPc = "start"
    /\ runCalls' = Append(runCalls, "GetCallerIdentity")
    /\ IF err THEN Fatalf("Error fetching AWS identity")
       ELSE runPc' = "fetch" /\ UNCHANGED diagnostic
    /\ UNCHANGED <<aggVars, shellVars, statusVars, pollVars, uiVars, metricVars, runVariant,
                   runServices>>

\* cfg, err := config.LoadDefaultConfig(...); ecsClient := ecs.NewFromConfig(cfg)
RunConfig(err) ==
    /\ runVariant = "main.go"
    /\ runPc = "start"
    /\ runCalls' = Append(runCalls, "LoadDefaultConfig")
    /\ IF err THEN Fatalf("unable to load SDK config")
       ELSE runPc' = "fetch" /\ UNCHANGED diagnostic
    /\ UNCHANGED <<aggVars, shellVars, statusVars, pollVars, uiVars, metricVars, runVariant,
                   runServices>>

\* services, err := aws.GetAllServiceDetails(...); if err != nil { log.Fatalf(...) }
RunFetch(n, err) ==
    /\ runPc = "fetch"
    /\ runCalls' = Append(runCalls, "GetAllServiceDetails")
    /\ IF err THEN Fatalf("Error fetching services") /\ UNCHANGED runServices
       ELSE /\ runServices' = [k \in 1..n |-> UIService(k)]
            /\ runPc' = "display"
            /\ UNCHANGED diagnostic
    /\ UNCHANGED <<aggVars, shellVars, statusVars, pollVars, uiVars, metricVars, runVariant>>

\* app := tview.NewApplication(); ui.DisplayServices(app, ..., services), which
\* fills the list and starts the poll loop; then app.Run() serves events.
RunDisplay ==
    /\ runPc = "display"
    /\ runCalls' = runCalls \o <<"NewApplication", "DisplayServices", "startPolling", "Run">>
    /\ currentServices' = runServices
    /\ filteredServices' = runServices
    /\ listItems' = ListLines(runServices)
    /\ runPc' = "running"
    /\ UNCHANGED <<aggVars, shellVars, statusVars, pollVars, metricVars, updateReqs, restartVars,
                   searchText, focus, root, modalService, promptServices, messageText,
                   inputText, lastKey, runVariant, runServices, diagnostic>>

RunNext ==
    \/ \E err \in BOOLEAN : RunIdentity(err)
    \/ \E err \in BOOLEAN : RunConfig(err)
    \/ \E n \in 0..MaxUISvc, err \in BOOLEAN : RunFetch(n, err)
    \/ RunDisplay
    \/ runPc = "running" /\ UINext

SpecRun == InitRun /\ [][RunNext]_vars

----------------------------------------------------------------------------
\* The shell hand-off: 's' on the list, the container selection list, the
\* confirmation modal and ExecCommandToContainer. All of it runs in handlers
\* of the application's event loop, which also runs the queued poll updates.
MaxContainers == 2

\* case 's': showContainerExecPrompt for the current item of the list
PressS(i, taskErr, detailsErr, n) ==
    /\ runPc = "running"
    /\ root = "layout"
    /\ focus = "list"
    /\ Len(listItems) > 0
    /\ i \in 1..Len(filteredServices)
    /\ IF taskErr
       THEN /\ messageText' = <<"Failed to fetch task for service: %v">>
            /\ root' = "messageNil"
            /\ UNCHANGED containerNames
       ELSE IF detailsErr
       THEN /\ messageText' = <<"Failed to fetch containers for task: %v">>
            /\ root' = "messageNil"
            /\ UNCHANGED containerNames
       ELSE /\ containerNames' = [k \in 1..n |-> k]
            /\ root' = "containers"
            /\ UNCHANGED messageText
    /\ UNCHANGED <<aggVars, statusVars, pollVars, metricVars, runVars, updateReqs,
                   restartVars, stateVars, searchText, focus, modalService,
                   promptServices, inputText, lastKey, screen, shellPc, container>>

\* An item of the selection list: the "Connect to container %s?" modal
ContainerChosen(k) ==
    /\ runPc = "running"
    /\ root = "containers"
    /\ k \in 1..Len(containerNames)
    /\ container' = containerNames[k]
    /\ root' = "connect"
    /\ UNCHANGED <<aggVars, statusVars, pollVars, metricVars, runVars, updateReqs,
                   restartVars, stateVars, searchText, focus, modalService,
                   promptServices, messageText, inputText, lastKey,
                   screen, shellPc, containerNames>>

\* "Cancel": back to the selection list
ConnectCancel ==
    /\ runPc = "running"
    /\ root = "connect"
    /\ shellPc = "idle"
    /\ container' = 0
    /\ root' = "containers"
    /\ UNCHANGED <<aggVars, statusVars, pollVars, metricVars, runVars, updateReqs,
                   restartVars, stateVars, searchText, focus, modalService,
                   promptServices, messageText, inputText, lastKey, screen, shellPc,
                   containerNames>>

\* "Connect": ExecCommandToContainer is called and clears the screen
ConnectClear ==
    /\ runPc = "running"
    /\ root = "connect"
    /\ shellPc = "idle"
    /\ shellPc' = "cleared"
    /\ UNCHANGED <<aggVars, statusVars, pollVars, metricVars, runVars, uiVars,
                   screen, containerNames, container>>

\* syscall.Exec: the session replaces the process, or the error is shown
ConnectExec(err) ==
    /\ shellPc = "cleared"
    /\ IF err
       THEN /\ shellPc' = "idle"
            /\ messageText' = <<"Failed to connect to container: %v", container>>
            /\ root' = "messageList"
            /\ container' = 0
       ELSE /\ shellPc' = "attached"
            /\ UNCHANGED <<messageText, root, container>>
    /\ UNCHANGED <<aggVars, statusVars, pollVars, metricVars, runVars, updateReqs,
                   restartVars, stateVars, searchText, focus, modalService,
                   promptServices, inputText, lastKey, screen, containerNames>>

\* list.SetDoneFunc: app.Stop() gives the terminal back; app.Run and runCLI return
ContainersDone ==
    /\ runPc = "running"
    /\ root = "containers"
    /\ screen' = "released"
    /\ runPc' = "exited"
    /\ UNCHANGED <<aggVars, statusVars, pollVars, metricVars, uiVars, runVariant,
                   runCalls, runServices, diagnostic, shellPc, containerNames,
                   container>>

\* "OK" of a message of the hand-off: app.SetRoot(previousView, true)
ShellMessageOk ==
    /\ runPc = "running"
    /\ root \in {"messageNil", "messageList"}
    /\ root' = IF root = "messageNil" THEN "nil" ELSE "containers"
    /\ messageText' = <<>>
    /\ UNCHANGED <<aggVars, statusVars, pollVars, metricVars, runVars, updateReqs,
                   restartVars, stateVars, searchText, focus, modalService,
                   promptServices, inputText, lastKey, shellVars>>

\* The event loop runs one handler or queued update at a time.
ShellNext ==
    \/ runPc = "running" /\ shellPc = "idle" /\ UINext
    \/ \E i \in 1..MaxUISvc, taskErr \in BOOLEAN, detailsErr \in BOOLEAN,
          n \in 0..MaxContainers : PressS(i, taskErr, detailsErr, n)
    \/ \E k \in 1..MaxContainers : ContainerChosen(k)
    \/ ConnectCancel
    \/ ConnectClear
    \/ \E err \in BOOLEAN : ConnectExec(err)
    \/ ContainersDone
    \/ ShellMessageOk

SpecShell == InitUI /\ [][ShellNext]_vars

----------------------------------------------------------------------------
\* The count prompt with integers of their width. An integer v is the pair
\* [hi, lo] with v = hi * Half + lo and 0 <= lo < Half, so that int64 values of
\* up to ten digits and their int32 conversions are computed within small
\* numbers. Texts of at most ten digits never leave the int64 range.
Half == 2 ^ 16

WidePrefixes ==
    {<<>>, <<"9", "9">>,
     <<"2", "1", "4", "7", "4", "8", "3", "6", "4">>,
     <<"4", "2", "9", "4", "9", "6", "7", "2", "9">>}

WideTexts ==
    {sign \o prefix \o <<Digits[d]>> :
        sign \in {<<>>, <<"-">>}, prefix \in WidePrefixes, d \in 1..Len(Digits)}

RECURSIVE DecimalWide(_)
DecimalWide(str) ==
    IF str = <<>> THEN [hi |-> 0, lo |-> 0]
    ELSE LET rest == DecimalWide(SubSeq(str, 1, Len(str) - 1))
             low == 10 * rest.lo + DigitValue(str[Len(str)])
         IN  [hi |-> 10 * rest.hi + (low \div Half), lo |-> low % Half]

NegateWide(v) ==
    IF v.lo = 0 THEN [hi |-> 0 - v.hi, lo |-> 0]
    ELSE [hi |-> 0 - v.hi - 1, lo |-> Half - v.lo]

\* strconv.Atoi, its value as an int64
AtoiWide(str) ==
    LET signed == str # <<>> /\ str[1] \in {"+", "-"}
        digits == IF signed THEN Tail(str) ELSE str
    IN  IF digits = <<>> \/ \E k \in 1..Len(digits) : ~IsDigit(digits[k])
        THEN [value |-> [hi |-> 0, lo |-> 0], err |-> TRUE]
        ELSE [value |-> IF signed /\ str[1] = "-" THEN NegateWide(DecimalWide(digits))
                        ELSE DecimalWide(digits),
              err |-> FALSE]

\* int32(desiredCount): the low 32 bits, read as a signed number
Int32(v) == [hi |-> ((v.hi + (Half \div 2)) % Half) - (Half \div 2), lo |-> v.lo]

InitWide ==
    /\ clusterPages = <<<<>>>>
    /\ svcCount = [c \in ClusterIds |-> 0]
    /\ deleted = {}
    /\ InitMain
    /\ IdleStatus
    /\ IdlePoll
    /\ IdleMetrics
    /\ IdleRun
    /\ IdleShell
    /\ updateReqs = <<>>
    /\ IdleRestart
    /\ currentServices = <<UIService(1)>>
    /\ filteredServices = currentServices
    /\ listItems = ListLines(currentServices)
    /\ searchText = <<>>
    /\ focus = "list"
    /\ root = "count"
    /\ modalService = UIService(1)
    /\ promptServices = <<>>
    /\ messageText = <<>>
    /\ inputText \in WideTexts
    /\ lastKey = "none"

\* Enter in the count prompt: Atoi, then UpdateServiceDesiredCount
SubmitWide(providerErr) ==
    /\ root = "count"
    /\ ~AtoiWide(inputText).err
    /\ updateReqs = <<>>
    /\ LET newDesiredCount == AtoiWide(inputText).value
           input == UpdateInput(modalService.ServiceName, modalService.Cluster,
                                <<Int32(newDesiredCount)>>, FALSE)
       IN  /\ updateReqs' = Sent(input, providerErr)
           /\ messageText' =
                  UpdateMessage(modalService.ServiceName, newDesiredCount, providerErr)
    /\ root' = "message"
    /\ inputText' = <<>>
    /\ lastKey' = "none"
    /\ modalService' = NoService
    /\ UNCHANGED <<aggVars, statusVars, pollVars, metricVars, runVars, shellVars,
                   restartVars, stateVars, searchText, focus, promptServices>>

SpecWide == InitWide /\ [][\E providerErr \in BOOLEAN : SubmitWide(providerErr)]_vars

----------------------------------------------------------------------------
\* What the properties below are stated with.
Min(a, b) == IF a < b THEN a ELSE b

Count(seq, r) == Cardinality({j \in 1..Len(seq) : seq[j] = r})

Finished(c) == gpc[c] \in {"ret", "done"}

CallBatches(c) == [j \in 1..Len(calls[c]) |-> calls[c][j].batch]

FailedCalls(c) == {j \in 1..Len(calls[c]) : ~calls[c][j].ok}

\* The record expected for service k of cluster c: the provider's fields and the cluster.
RecordOf(c, k) == [Cluster |-> c] @@ ProviderService(c, k)

\* The records expected for the identifiers `ids` of cluster c, in list order.
ExpectedRecords(c, ids) ==
    LET kept == SelectSeq(ids, LAMBDA k : k \notin deleted)
    IN  [j \in 1..Len(kept) |-> RecordOf(c, kept[j])]

\* The outputs of the successful calls for c, in call order, tagged with the cluster.
OutputsInCallOrder(c) ==
    Flatten([j \in 1..Len(calls[c]) |->
                [m \in 1..Len(calls[c][j].out) |-> [Cluster |-> c] @@ calls[c][j].out[m]]])

\* How often r occurs in the results of the clusters S, and how many records they hold.
RECURSIVE SumCount(_, _)
SumCount(S, r) ==
    IF S = {} THEN 0
    ELSE LET c == CHOOSE x \in S : TRUE IN Count(services[c], r) + SumCount(S \ {c}, r)

RECURSIVE SumLen(_)
SumLen(S) ==
    IF S = {} THEN 0
    ELSE LET c == CHOOSE x \in S : TRUE IN Len(services[c]) + SumLen(S \ {c})

\* C1: no DescribeServices call carries more than 10 identifiers or none, and the
\* calls' identifier lists are consecutive chunks of the listed identifiers: their
\* concatenation is the part of the list the loop has passed, and the whole list
\* once the loop has ended.
C1_BatchesAreConsecutiveChunks ==
    \A c \in ClusterIds :
        /\ \A j \in 1..Len(calls[c]) :
              Len(calls[c][j].batch) >= 1 /\ Len(calls[c][j].batch) <= 10
        /\ Flatten(CallBatches(c)) =
              SubSeq(serviceArns[c], 1, Min(idx[c], Len(serviceArns[c])))
        /\ (Finished(c) /\ ~gerr[c]) => Flatten(CallBatches(c)) = serviceArns[c]

C1_Witness ==
    /\ gpc[1] = "done"
    /\ Len(serviceArns[1]) = 21
    /\ Len(calls[1]) = 3
    /\ Len(calls[1][3].batch) = 1

\* C2: while no DescribeServices call has failed, the records gathered for a
\* cluster are the calls' outputs concatenated in call order, which are the
\* records of the identifiers passed so far in list order.
C2_ResultIsOutputsInBatchOrder ==
    \A c \in ClusterIds :
        FailedCalls(c) = {} =>
            /\ services[c] = OutputsInCallOrder(c)
            /\ services[c] =
                  ExpectedRecords(c, SubSeq(serviceArns[c], 1,
                                            Min(idx[c], Len(serviceArns[c]))))

C2_Witness ==
    /\ gpc[1] = "done"
    /\ Len(calls[1]) = 3
    /\ FailedCalls(1) = {}
    /\ Len(services[1]) = 21

\* C3: when exactly one call of a describe of several batches has failed and the
\* loop has ended, every batch was issued, no error is returned and the result
\* is the records of the identifiers outside the failed batch, in list order.
C3_OneFailedBatchDropsOnlyItself ==
    \A c \in ClusterIds :
        (/\ Finished(c)
         /\ Len(serviceArns[c]) > 10
         /\ Cardinality(FailedCalls(c)) = 1) =>
            LET f == CHOOSE j \in FailedCalls(c) : TRUE
                lost == Range(calls[c][f].batch)
            IN  /\ ~gerr[c]
                /\ Len(calls[c]) = (Len(serviceArns[c]) + 9) \div 10
                /\ services[c] =
                      ExpectedRecords(c, SelectSeq(serviceArns[c],
                                                   LAMBDA k : k \notin lost))
                /\ services[c] = OutputsInCallOrder(c)

C3_Witness ==
    /\ gpc[1] = "done"
    /\ Len(calls[1]) = 3
    /\ FailedCalls(1) = {2}
    /\ Len(services[1]) = 11

\* C4: when GetAllServiceDetails has returned without error every goroutine has
\* ended, and each record occurs in the result as often as in the clusters'
\* results taken together, which is once.
C4_ResultIsMultisetUnion ==
    (mpc = "done" /\ ~retErr) =>
        /\ \A c \in Range(clusters) : gpc[c] = "done"
        /\ \A r \in Range(allServices) \cup UNION {Range(services[c]) : c \in ClusterIds} :
              /\ Count(allServices, r) = SumCount(ClusterIds, r)
              /\ Count(allServices, r) = 1

\* The second cluster's records come before the first cluster's.
C4_Witness ==
    /\ mpc = "done"
    /\ ~retErr
    /\ Len(allServices) = 4
    /\ allServices[1].Cluster = 2
    /\ allServices[4].Cluster = 1

\* C5: a cluster that lists no service gets no DescribeServices call and no
\* record; once the aggregation has returned it returned no error, holds no
\* record of that cluster and holds every record of the other clusters.
C5_EmptyClusterContributesNothing ==
    \A c \in ClusterIds :
        (Finished(c) /\ ~gerr[c] /\ serviceArns[c] = <<>>) =>
            /\ calls[c] = <<>>
            /\ services[c] = <<>>
            /\ mpc = "done" =>
                  /\ ~retErr
                  /\ \A j \in 1..Len(allServices) : allServices[j].Cluster # c
                  /\ \A c2 \in ClusterIds \ {c} :
                        \A r \in Range(services[c2]) : Count(allServices, r) = 1
                  /\ Len(allServices) = SumLen(ClusterIds \ {c})

\* One cluster of no service and one of two: the two records are returned.
C5_Witness ==
    /\ mpc = "done"
    /\ Len(clusters) = 2
    /\ \E c \in ClusterIds : gpc[c] = "done" /\ ~gerr[c] /\ serviceArns[c] = <<>>
    /\ Len(allServices) = 2

\* C6: a cluster whose listServices failed gets no DescribeServices call and
\* no record; once the aggregation has returned it returned no error, holds no
\* record of that cluster and holds every record of the other clusters.
C6_FailedBranchContributesNothing ==
    \A c \in ClusterIds :
        gerr[c] =>
            /\ calls[c] = <<>>
            /\ services[c] = <<>>
            /\ mpc = "done" =>
                  /\ ~retErr
                  /\ \A j \in 1..Len(allServices) : allServices[j].Cluster # c
                  /\ \A c2 \in ClusterIds \ {c} :
                        \A r \in Range(services[c2]) : Count(allServices, r) = 1
                  /\ Len(allServices) = SumLen(ClusterIds \ {c})

C6_Witness ==
    /\ mpc = "done"
    /\ gerr[1]
    /\ ~gerr[2]
    /\ FailedCalls(2) = {}
    /\ Len(allServices) = 12

\* C7: once a ListClusters page has failed, GetAllServiceDetails has returned
\* the error with no record, and no ListServices or DescribeServices call and
\* no goroutine was ever started.
C7_ListClustersErrorIsReturned ==
    (\E j \in 1..Len(clusterCalls) : ~clusterCalls[j]) =>
        /\ mpc = "done"
        /\ retErr
        /\ allServices = <<>>
        /\ listCalls = {}
        /\ \A c \in ClusterIds : calls[c] = <<>> /\ gpc[c] = "idle"

\* The second page fails after the first was listed.
C7_Witness ==
    /\ Len(clusterCalls) = 2
    /\ clusterCalls[1]
    /\ ~clusterCalls[2]
    /\ mpc = "done"

\* C8: the status returned is decided by the first deployment alone: "Deploying
\* (running/desired)" for IN_PROGRESS, "Stable" for COMPLETED with equal counts,
\* the raw status for COMPLETED with unequal counts, "Deployment Failed" for
\* FAILED, "Unknown" when no service or no deployment is described; no error is
\* returned then.
C8_DeploymentStatusMapping ==
    (stPc = "done" /\ ~stOutput.err) =>
        /\ ~stResult.err
        /\ IF stOutput.services = <<>> \/ stOutput.services[1].Deployments = <<>>
           THEN stResult.status = "Unknown"
           ELSE LET d == stOutput.services[1].Deployments[1]
                IN  /\ d.RolloutState = "IN_PROGRESS" =>
                          stResult.status = "Deploying (" \o FormatInt(d.RunningCount)
                                               \o "/" \o FormatInt(d.DesiredCount) \o ")"
                    /\ (d.RolloutState = "COMPLETED" /\ d.RunningCount = d.DesiredCount) =>
                          stResult.status = "Stable"
                    /\ (d.RolloutState = "COMPLETED" /\ d.RunningCount # d.DesiredCount) =>
                          stResult.status = d.Status
                    /\ d.RolloutState = "FAILED" => stResult.status = "Deployment Failed"

\* A completed rollout that runs fewer tasks than desired reports the raw status.
C8_Witness ==
    /\ stPc = "done"
    /\ stOutput.services # <<>>
    /\ stOutput.services[1].Deployments # <<>>
    /\ stOutput.services[1].Deployments[1].RolloutState = "COMPLETED"
    /\ stOutput.services[1].Deployments[1].RunningCount = 9
    /\ stOutput.services[1].Deployments[1].DesiredCount = 10
    /\ stResult.status = "PRIMARY"

\* C9: once the shared context is cancelled, the consumer receives no further
\* snapshot from the updates channel.
C9_NoSnapshotAfterCancel == [][ctxDone => received' = received]_vars

\* C10: at most one fetch cycle is under way at any time, and one is under way
\* exactly while the goroutine fetches or sends; a tick that fires meanwhile
\* waits in ticker.C, and each cycle hands over its snapshot before the next begins.
C10_NoOverlappingFetches ==
    /\ started - finished \in {0, 1}
    /\ started - finished = 1 <=> ppc \in {"fetch", "send"}
    /\ Len(received) = finished
    /\ started <= ticks

\* The second tick fired while the first cycle is still fetching.
C10_Witness ==
    /\ ppc = "fetch"
    /\ started = 1
    /\ finished = 0
    /\ ticks = 2
    /\ tickerC = 1

\* C11: once the context is cancelled the poll goroutine eventually stops, with
\* the ticker stopped and updates closed, whatever it was doing at that moment.
C11_StopsAfterCancel ==
    ctxDone ~> (ppc = "done" /\ tickerStopped /\ updatesClosed)

\* C12 as stated: with a consumer that keeps receiving, a first tick that fires
\* before any cancellation leads to a published snapshot.
C12_FirstTickPublishes ==
    ([]consuming) => ((ticks >= 1 /\ ~ctxDone) ~> (received # <<>>))

\* C12: once the goroutine has taken a tick from ticker.C, a snapshot is
\* published for as long as the consumer keeps receiving.
C12_TakenTickPublishes ==
    (started >= 1 /\ consuming) ~> (received # <<>> \/ ~consuming)

C12_Witness ==
    /\ Len(received) = 1
    /\ ticks = 1
    /\ ctxDone
    /\ consuming

\* C13: every snapshot of a cycle begun after the provider gained a service
\* holds a record of that service.
C13_CreatedServiceAppears ==
    \A j \in 1..Len(received) :
        (createdAt >= 0 /\ j > createdAt) =>
            \E k \in 1..Len(received[j]) :
                received[j][k].ServiceName = Len(pollServices) + 1

\* The UpdateService requests sent for `input`, whatever their outcome.
Requests(input) == {j \in 1..Len(updateReqs) : updateReqs[j].input = input}

\* C14: when restartAllServices has reported, RestartService was attempted once
\* for every service, the reported names are those of the services whose call
\* failed, and with no failure the success message is reported.
C14_EveryServiceAttemptedFailuresReported ==
    rpc \in {"queued", "done"} =>
        LET erred == {i \in 1..Len(rServices) : wpc[i] = "err"}
            input(i) == RestartInput(rServices[i].ServiceName, rServices[i].Cluster)
        IN  /\ \A i \in 1..Len(rServices) : Cardinality(Requests(input(i))) = 1
            /\ \A i \in 1..Len(rServices) :
                   updateReqs[CHOOSE j \in Requests(input(i)) : TRUE].err
                       = (wpc[i] = "err")
            /\ Range(failed) = {rServices[i].ServiceName : i \in erred}
            /\ Len(failed) = Cardinality(erred)
            /\ rMessages[1] =
                   IF erred = {}
                   THEN <<"All services have been restarted successfully.">>
                   ELSE <<"Failed to restart services: %v", failed>>

C14_Witness ==
    /\ rpc = "done"
    /\ Len(rServices) = MaxRestartSvc
    /\ wpc[1] = "err"
    /\ wpc[2] = "ok"
    /\ wpc[MaxRestartSvc] = "err"
    /\ root = "message"

\* C15: restartAllServices queues one report, and only once every
\* RestartService call has returned: none is queued while a call is in flight
\* or a goroutine has yet to call.
C15_OneReportAfterAllCalls ==
    /\ Len(rMessages) <= 1
    /\ rMessages # <<>> =>
           /\ rIdx = Len(rServices)
           /\ \A i \in 1..Len(rServices) : wpc[i] \in {"ok", "err"}
    /\ rpc \in {"queued", "done"} <=> Len(rMessages) = 1

\* Two RestartService calls are in flight at once, and nothing is reported yet.
C15_Witness ==
    /\ \E i, j \in 1..Len(rServices) : i # j /\ wpc[i] = "call" /\ wpc[j] = "call"
    /\ rMessages = <<>>

\* C16 as stated: the restart-all prompt is opened over the services the list
\* shows (filteredServices) when 'R' is pressed, and "Yes" hands those to
\* restartAllServices.
C16_RestartAllTakesVisibleServices ==
    [][/\ (root = "layout" /\ root' = "restartAll") =>
              promptServices' = filteredServices
       /\ (rpc = "idle" /\ rpc' = "spawn") => rServices' = promptServices]_vars

\* C16: the restart-all prompt is opened over the whole snapshot
\* (currentServices) when 'R' is pressed, whatever the filter, and "Yes" hands
\* those services to restartAllServices.
C16_RestartAllTakesWholeSnapshot ==
    [][/\ (root = "layout" /\ root' = "restartAll") =>
              promptServices' = currentServices
       /\ (rpc = "idle" /\ rpc' = "spawn") => rServices' = promptServices]_vars

\* restartAllServices was started under a filter that hides some of its services.
C16_Witness ==
    /\ rpc = "spawn"
    /\ searchText # <<>>
    /\ Len(filteredServices) < Len(rServices)

\* The text is a decimal numeral of a non-negative integer.
IsNonNegativeInteger(str) == str # <<>> /\ \A k \in 1..Len(str) : IsDigit(str[k])

\* C17: Enter on a count prompt whose text is not a non-negative integer sends
\* no UpdateService request and shows the validation message.
C17_InvalidCountNeverSent ==
    [][(root = "count" /\ root' = "message" /\ rpc' = rpc
            /\ ~IsNonNegativeInteger(inputText)) =>
          /\ updateReqs' = updateReqs
          /\ messageText' = <<"Invalid input. Please enter a positive integer.">>]_vars

\* C18: no UpdateService request carries a negative desired count.
C18_NegativeCountNeverSent ==
    \A j \in 1..Len(updateReqs) :
        updateReqs[j].input.DesiredCount # <<>> =>
            updateReqs[j].input.DesiredCount[1] >= 0

\* C19: a step in which the user's update or restart of one service fails at
\* the provider shows the failure in the message modal and leaves
\* currentServices, filteredServices and the list's lines as they were.
C19_FailedMutationShownStateKept ==
    [][(/\ Len(updateReqs') = Len(updateReqs) + 1
        /\ updateReqs'[Len(updateReqs')].err
        /\ wpc' = wpc) =>
          LET input == updateReqs'[Len(updateReqs')].input
          IN  /\ root' = "message"
              /\ messageText' =
                     IF input.DesiredCount = <<>>
                     THEN <<"Failed to restart service: %v", input.Service>>
                     ELSE <<"Failed to update service: %v", input.Service>>
              /\ UNCHANGED stateVars]_vars

C19_Witness ==
    /\ root = "message"
    /\ updateReqs # <<>>
    /\ updateReqs[Len(updateReqs)].err
    /\ updateReqs[Len(updateReqs)].input.DesiredCount # <<>>
    /\ messageText[1] = "Failed to update service: %v"
    /\ listItems = ListLines(filteredServices)

\* C20: a step in which UpdateServiceDesiredCount succeeds leaves
\* currentServices, filteredServices and the list's lines as they were, and
\* currentServices changes only when a poll snapshot replaces it.
C20_NoLocalEchoOfDesiredCount ==
    [][/\ (/\ Len(updateReqs') = Len(updateReqs) + 1
           /\ ~updateReqs'[Len(updateReqs')].err
           /\ updateReqs'[Len(updateReqs')].input.DesiredCount # <<>>) =>
              UNCHANGED stateVars
       /\ currentServices' # currentServices =>
              /\ currentServices' = ProviderSnapshot
              /\ listItems' = ListLines(FilterServices(ProviderSnapshot, searchText))
              /\ updateReqs' = updateReqs]_vars

\* The update was accepted and the list still shows the service's old count.
C20_Witness ==
    /\ root = "message"
    /\ Len(messageText) = 3
    /\ \E k \in 1..Len(filteredServices) :
           /\ filteredServices[k].ServiceName = messageText[2]
           /\ filteredServices[k].DesiredCount # messageText[3]
           /\ listItems[k] = ListLine(filteredServices[k])
    /\ \E j \in 1..Len(updateReqs) :
           /\ ~updateReqs[j].err
           /\ updateReqs[j].input.DesiredCount = <<messageText[3]>>

SameLetter(a, b) ==
    \/ a = b
    \/ {a, b} \in {{"A", "a"}, {"B", "b"}, {"C", "c"}}

\* The query occurs in the name, letter case aside.
Matches(name, query) ==
    \E p \in 0..(Len(name) - Len(query)) :
        \A j \in 1..Len(query) : SameLetter(name[p + j], query[j])

\* `sub` is made of the services of `svcs` whose name matches, in their order.
IsFilterOf(sub, svcs, query) ==
    LET M == {i \in 1..Len(svcs) : Matches(svcs[i].ServiceName, query)}
        nth(k) == CHOOSE i \in M : Cardinality({m \in M : m < i}) = k - 1
    IN  /\ Len(sub) = Cardinality(M)
        /\ \A k \in 1..Len(sub) : sub[k] = svcs[nth(k)]

C24_ClusterAndNameUniqueInSnapshot ==
    \A j \in 1..Len(received) :
        \A k, l \in 1..Len(received[j]) :
            (/\ received[j][k].Cluster = received[j][l].Cluster
             /\ received[j][k].ServiceName = received[j][l].ServiceName) => k = l

\* C25: every record of a snapshot received from updates is the record of a
\* service the provider described, never the zero value of pkg.ServiceDetails.
C25_NoBlankRecordPublished ==
    \A j \in 1..Len(received) :
        \A k \in 1..Len(received[j]) :
            /\ received[j][k] # ZeroDetails
            /\ received[j][k] \in
                   {ToServiceDetails(ProviderService(1, n), 1) : n \in 1..MaxPollSvc}

\* C26: a failed metrics query never drops a record nor stops the loop: every
\* service handled so far has its record, in order, with the described fields,
\* and a service whose metrics query failed has both utilizations 0.
C26_MetricsFailureKeepsRecord ==
    /\ Len(metricsServices) = metricsIdx
    /\ \A k \in 1..Len(metricsServices) :
          /\ k <= Len(metricsOutput)
          /\ ToServiceDetails(metricsOutput[k], metricsCluster) =
                [f \in {"ServiceName", "RunningCount", "DesiredCount", "Status", "Cluster"}
                    |-> metricsServices[k][f]]
          /\ k \in metricsFailed =>
                /\ metricsServices[k].CPUUtilization = 0
                /\ metricsServices[k].MemoryUtilization = 0

\* The whole output handled, the first query failed and a later one answered.
C26_Witness ==
    /\ metricsIdx = MaxMetricSvc
    /\ Len(metricsServices) = MaxMetricSvc
    /\ 1 \in metricsFailed
    /\ 2 \notin metricsFailed
    /\ metricsServices[2].CPUUtilization = 50
    /\ metricsServices[1].MemoryUtilization = 0


\* C27: runCLI checks the identity before it makes the initial fetch, and a
\* failure of either ends the process with a diagnostic before any
\* application is made or run and before the poll loop is started.
C27_IdentityThenFetchOrFatal ==
    /\ \A k \in 1..Len(runCalls) :
          runCalls[k] = "GetAllServiceDetails" =>
              \E j \in 1..(k - 1) : runCalls[j] = "GetCallerIdentity"
    /\ runPc = "exited" =>
          /\ diagnostic # ""
          /\ Range(runCalls) \cap {"NewApplication", "DisplayServices", "startPolling", "Run"} = {}
          /\ currentServices = <<>>
          /\ listItems = <<>>


\* C28: the shell hand-off is exclusive: the session attaches only after the
\* application has released the terminal, and from the start of the hand-off
\* until it is over no poll update redraws the list.
C28_ExclusiveShellHandOff ==
    [][/\ shellPc' = "attached" => screen = "released"
       /\ shellPc # "idle" => listItems' = listItems]_vars


\* C29: whatever the interleaving of the goroutines, every record collected
\* carries the cluster one of whose successful DescribeServices calls
\* returned the described service of the record.
C29_RecordCarriesItsCluster ==
    \A k \in 1..Len(allServices) :
        LET r == allServices[k]
        IN  /\ r.Cluster \in ClusterIds
            /\ \E j \in 1..Len(calls[r.Cluster]) :
                  /\ calls[r.Cluster][j].ok
                  /\ \E i \in 1..Len(calls[r.Cluster][j].out) :
                        calls[r.Cluster][j].out[i] =
                            [ServiceName |-> r.ServiceName,
                             RunningCount |-> r.RunningCount,
                             DesiredCount |-> r.DesiredCount,
                             Status |-> r.Status]

\* Returned, with records of two clusters, the second cluster's first.
C29_Witness ==
    /\ mpc = "done"
    /\ Len(allServices) >= 2
    /\ allServices[1].Cluster = 2
    /\ allServices[Len(allServices)].Cluster = 1
    /\ Len(clusters) = 2


C31_MessageOkReturnsToList ==
    [][(root \in {"message", "messageNil", "messageList"} /\ root' # root) =>
          root' = "layout"]_vars


\* C32: the UpdateService request names the cluster and the service given and
\* carries a desired count equal to the count parsed from the prompt's text.
C32_RequestCarriesRequestedCount ==
    [][updateReqs' # updateReqs =>
          LET sent == updateReqs'[Len(updateReqs')].input
          IN  /\ sent.Cluster = modalService.Cluster
              /\ sent.Service = modalService.ServiceName
              /\ sent.DesiredCount = <<AtoiWide(inputText).value>>]_vars


\* C33: both fan-outs end once their provider calls return: no buffer ever
\* holds more than one value a worker, a worker about to send finds room,
\* nothing is sent after the close, and the collector gets to its end.
C33_FanOutTerminates ==
    /\ [](/\ Len(serviceCh) <= Len(clusters)
          /\ Len(failedServices) <= Len(rServices)
          /\ \A c \in ClusterIds : gpc[c] = "ret" => Len(serviceCh) < Len(clusters)
          /\ \A i \in 1..Len(rServices) :
                wpc[i] = "call" => Len(failedServices) < Len(rServices))
    /\ [][/\ chClosed => Len(serviceCh') <= Len(serviceCh)
          /\ rpc \in {"drain", "report", "queued", "done"} =>
                failedServices' = failedServices]_vars
    /\ <>(mpc = "done" /\ rpc \in {"idle", "done"})

\* Every restart failed, so the buffer of failedServices was filled, and both
\* collectors have come to their end.
C33_Witness ==
    /\ rpc = "done"
    /\ Len(rServices) = MaxRestartSvc
    /\ Len(failedServices) = Len(rServices)
    /\ mpc = "done"
    /\ chClosed


\* C34: a tick whose full fetch fails sends no snapshot, so the consumer keeps
\* the one it had, and the goroutine is back at its select with the ticker
\* running and the channel open.
C34_FailedFullFetchSkipsTick ==
    [][(ppc = "fullFetch" /\ ppc' \notin {"fullFetch", "send"}) =>
          /\ received' = received
          /\ ppc' = "select"
          /\ ~updatesClosed'
          /\ ~tickerStopped']_vars

\* The first tick's fetch failed and the second tick's snapshot was received.
C34_Witness ==
    /\ started = 2
    /\ finished = 1
    /\ Len(received) = 1
    /\ sliceId = 1
    /\ ppc = "select"


\* C35 as stated: Esc in the count prompt leaves the prompt and puts the
\* service list back, with no UpdateService request.
C35_EscLeavesPrompt ==
    [][(root = "count" /\ lastKey' = "Esc" /\ lastKey # "Esc") =>
          root' = "layout" /\ updateReqs' = updateReqs]_vars

\* C35: the count prompt is left by Enter alone, to a message whose "OK" puts
\* the service list back; when the text is no integer no UpdateService request
\* is sent on the way, and Esc, Tab and Backtab leave the prompt where it is.
C35_BackThroughRejectedEnter ==
    [][/\ (root = "count" /\ lastKey' # lastKey /\ lastKey' # "none") =>
             root' = "count" /\ updateReqs' = updateReqs
       /\ (root = "count" /\ root' # "count") => root' = "message"
       /\ (root = "count" /\ Atoi(inputText).err /\ root' = "message") =>
             updateReqs' = updateReqs
       /\ (root = "message" /\ root' # "message") => root' = "layout"]_vars

\* Esc was pressed in the prompt, which is still shown, and nothing was sent.
C35_Witness ==
    /\ root = "count"
    /\ lastKey = "Esc"
    /\ Atoi(inputText).err
    /\ updateReqs = <<>>


\* C36: the done event of the container selection list puts the service list
\* back as the root and leaves the application running.
C36_ContainersDoneReturnsToList ==
    [][(root = "containers" /\ root' # "connect" /\
        <<root, screen, runPc>>' # <<root, screen, runPc>>) =>
          /\ root' = "layout"
          /\ screen' = "app"
          /\ runPc' = "running"]_vars

\* C37: 'R' alone sends nothing and starts nothing; restart-all is started by
\* "Yes" only, "No" starts nothing, and both put the layout back as the root.
C37_RestartAllOnlyAfterYes ==
    [][/\ (root = "layout" /\ root' = "restartAll") =>
             /\ updateReqs' = updateReqs
             /\ restartVars' = restartVars
       /\ (root = "restartAll" /\ root' # "restartAll") => root' = "layout"
       /\ rpc' # rpc => root = "restartAll" /\ rServices' = promptServices
       /\ root # "restartAll" => rServices' = rServices]_vars

\* "Yes" was chosen: restart-all runs for the services of the prompt and the
\* layout is the root again.
C37_Witness ==
    /\ rpc = "spawn"
    /\ Len(rServices) >= 1
    /\ root = "layout"
    /\ updateReqs = <<>>


====
